---- MODULE Spec2Model ----
(***************************************************************************)
(* Model of the kicad_format symbol-library conversion layer:              *)
(*   - the borrowing token cursor ParserRef        (convert_ref.rs)        *)
(*   - the borrowing ("fast") grammar              (symbol_library_fast.rs)*)
(*   - the owning grammar                          (symbol_library.rs)     *)
(*   - the property-key interner                   (string_interner.rs)    *)
(*                                                                         *)
(* Token trees are records: k is the node kind, the other field its payload*)
(* An f32 payload is kept in HALF UNITS (the integer 3 is the number 1.5), *)
(* so that the float-to-integer casts of the code (`as u32`, `as i32`,     *)
(* `as i16`) truncate something.  Option<T> is a sequence of length 0 or 1.*)
(* Result<T,E> is a record [ok, val, cur] or [ok, err, cur]; cur is the    *)
(* cursor as the call left it.                                             *)
(***************************************************************************)
EXTENDS Integers, Sequences, FiniteSets, TLC

\* ------------------------------------------------------------------------
\* Token tree (kicad_sexpr::Sexpr)
\* ------------------------------------------------------------------------
Symbol(s) == [k |-> "Symbol", symbol |-> s]
String(s) == [k |-> "String", string |-> s]
Number(h) == [k |-> "Number", number |-> h]
List(seq) == [k |-> "List", list |-> seq]

\* f32 literal n (an integer) and n + 1/2, in half units
F(n) == 2 * n
FH(n) == 2 * n + 1

\* Option<T>
None == <<>>
Some(x) == <<x>>
is_some(o) == Len(o) > 0

\* Result<T, KiCadParseError>
Ok(v, c) == [ok |-> TRUE, val |-> v, cur |-> c]
Err(e, c) == [ok |-> FALSE, err |-> e, cur |-> c]

\* KiCadParseError variants
UnexpectedEndOfList == [e |-> "UnexpectedEndOfList"]
UnexpectedSexprType(kind) == [e |-> "UnexpectedSexprType", expected |-> kind]
NonMatchingSymbol(found, expected) ==
  [e |-> "NonMatchingSymbol", found |-> found, expected |-> expected]
InvalidEnumValue(value, enum_name) ==
  [e |-> "InvalidEnumValue", value |-> value, enum_name |-> enum_name]
ExpectedEndOfList(found) == [e |-> "ExpectedEndOfList", found |-> found]
InvalidLibraryId(s) == [e |-> "InvalidLibraryId", value |-> s]
InvalidUnitId(s) == [e |-> "InvalidUnitId", value |-> s]

ErrorKinds ==
  {"UnexpectedEndOfList", "UnexpectedSexprType", "NonMatchingSymbol",
   "InvalidEnumValue", "ExpectedEndOfList", "InvalidLibraryId", "InvalidUnitId"}

\* ------------------------------------------------------------------------
\* Numeric casts of the code (Rust `as`: truncate toward zero, saturate)
\* ------------------------------------------------------------------------
TruncToZero(h) == IF h >= 0 THEN h \div 2 ELSE -((-h) \div 2)

Saturate(n, lo, hi) == IF n < lo THEN lo ELSE IF n > hi THEN hi ELSE n

\* u32::MAX is above every integer TLC represents: only the lower end clamps
f32_as_u32(h) == IF TruncToZero(h) < 0 THEN 0 ELSE TruncToZero(h)
f32_as_i32(h) == Saturate(TruncToZero(h), -2147483647 - 1, 2147483647)
f32_as_i16(h) == Saturate(TruncToZero(h), -32768, 32767)

\* the f32 nearest to a >= 0: the multiple of the spacing u nearest to a, a tie
\* going to the even multiple; the spacing is 1 below 2^24 and doubles with
\* every further binary digit of a
RECURSIVE round_to_f32(_, _)
round_to_f32(a, u) ==
  IF a \div u >= 16777216 THEN round_to_f32(a, 2 * u)
  ELSE IF 2 * (a % u) < u THEN (a \div u) * u
  ELSE IF 2 * (a % u) > u THEN (a \div u + 1) * u
  ELSE IF (a \div u) % 2 = 0 THEN (a \div u) * u
  ELSE (a \div u + 1) * u

\* integer -> f32, `n as f32`: the nearest f32, exact up to 2^24 and rounded
\* to 24 significant bits above; in half units, which hold |n| < 2^30
int_as_f32(n) ==
  IF n >= 0 THEN 2 * round_to_f32(n, 1) ELSE -(2 * round_to_f32(-n, 1))

\* ------------------------------------------------------------------------
\* ParserRef: the borrowing cursor.  inner is the sibling sequence, pos the
\* number of tokens already consumed.
\* ------------------------------------------------------------------------
new(inner) == [inner |-> inner, pos |-> 0]

Advance(p) == [p EXCEPT !.pos = @ + 1]

\* variant: an exhausted cursor starts over
expect_next_rewinding(p) ==
  IF p.pos < Len(p.inner)
    THEN Ok(p.inner[p.pos + 1], Advance(p))
    ELSE Err(UnexpectedEndOfList, new(p.inner))

expect_next(p) ==
  IF p.pos < Len(p.inner)
    THEN Ok(p.inner[p.pos + 1], Advance(p))
    ELSE Err(UnexpectedEndOfList, p)

\* variant: peeking an exhausted cursor shows the last token again
peek_next_sticky(p) ==
  IF p.pos < Len(p.inner) THEN Some(p.inner[p.pos + 1])
  ELSE IF Len(p.inner) > 0 THEN Some(p.inner[Len(p.inner)])
  ELSE None

peek_next(p) ==
  IF p.pos < Len(p.inner) THEN Some(p.inner[p.pos + 1]) ELSE None

\* the payload a `let Sexpr::K(x) = next` binds
Payload(sexpr) ==
  CASE sexpr.k = "List" -> new(sexpr.list)
    [] sexpr.k = "Symbol" -> sexpr.symbol
    [] sexpr.k = "String" -> sexpr.string
    [] sexpr.k = "Number" -> sexpr.number

\* variant: the error names the kind that was found
let_else_naming_found(next, kind) ==
  IF ~next.ok THEN next
  ELSE IF next.val.k # kind THEN Err(UnexpectedSexprType(next.val.k), next.cur)
  ELSE Ok(Payload(next.val), next.cur)

\* `let next = self.expect_next()?; let Sexpr::K(x) = next else { Err(..) }`
let_else(next, kind) ==
  IF ~next.ok THEN next
  ELSE IF next.val.k # kind THEN Err(UnexpectedSexprType(kind), next.cur)
  ELSE Ok(Payload(next.val), next.cur)

expect_list(p) == let_else(expect_next(p), "List")

expect_symbol(p) == let_else(expect_next(p), "Symbol")

\* variant: found and expected change places in the error
matching_swapped(symbol, expected) ==
  IF ~symbol.ok THEN symbol
  ELSE IF symbol.val # expected
    THEN Err(NonMatchingSymbol(expected, symbol.val), symbol.cur)
  ELSE Ok(TRUE, symbol.cur)

\* `if symbol != expected { return Err(NonMatchingSymbol) }`
matching(symbol, expected) ==
  IF ~symbol.ok THEN symbol
  ELSE IF symbol.val # expected
    THEN Err(NonMatchingSymbol(symbol.val, expected), symbol.cur)
  ELSE Ok(TRUE, symbol.cur)

expect_symbol_matching(p, expected) == matching(expect_symbol(p), expected)

\* the outcome t of work on a child cursor, seen from the parent cursor
Leave(t, cur) == IF ~t.ok THEN Err(t.err, cur) ELSE Ok(t.val, cur)

\* the child cursor as t left it becomes the value: `Ok(list)`
Enter(t, cur) == IF ~t.ok THEN Err(t.err, cur) ELSE Ok(t.cur, cur)

\* `list.expect_symbol_matching(name)?; Ok(list)`
with_name(list, name) ==
  IF ~list.ok THEN list
  ELSE Enter(expect_symbol_matching(list.val, name), list.cur)

\* val is the child cursor (positioned after the keyword), cur the parent
expect_list_with_name(p, name) == with_name(expect_list(p), name)

\* Result::ok: Option in val, never an error
ok(r) == [val |-> IF r.ok THEN Some(r.val) ELSE None, cur |-> r.cur]
\* variant: a list with another head is consumed and read as absent
maybe_list_with_name_consuming(p, name) ==
  IF peek_next(p) = None THEN [val |-> None, cur |-> p]
  ELSE IF peek_next(p)[1].k # "List" THEN [val |-> None, cur |-> p]
  ELSE ok(expect_list_with_name(p, name))

\* Option<ParserRef> in val, the parent cursor in cur
maybe_list_with_name(p, name) ==
  IF peek_next(p) = None THEN [val |-> None, cur |-> p]
  ELSE IF peek_next(p)[1].k # "List" THEN [val |-> None, cur |-> p]
  ELSE IF Len(peek_next(p)[1].list) = 0 THEN [val |-> None, cur |-> p]
  ELSE IF peek_next(p)[1].list[1].k # "Symbol" THEN [val |-> None, cur |-> p]
  ELSE IF peek_next(p)[1].list[1].symbol = name
    THEN ok(expect_list_with_name(p, name))
  ELSE [val |-> None, cur |-> p]

expect_string(p) == let_else(expect_next(p), "String")

expect_number(p) == let_else(expect_next(p), "Number")

\* `self.expect_list_with_name(name)?.expect_K()`
expect_in(list, kind) ==
  IF ~list.ok THEN list
  ELSE Leave(let_else(expect_next(list.val), kind), list.cur)

\* `self.maybe_list_with_name(name)?.expect_K().ok()`
maybe_in(list, kind) ==
  IF list.val = None THEN [val |-> None, cur |-> list.cur]
  ELSE ok(Leave(let_else(expect_next(list.val[1]), kind), list.cur))

expect_string_with_name(p, name) == expect_in(expect_list_with_name(p, name), "String")

maybe_string_with_name(p, name) == maybe_in(maybe_list_with_name(p, name), "String")

\* variant: only the yes/no spelling is accepted
match_yes_no_only(result) ==
  IF ~result.ok THEN result
  ELSE IF result.val = "yes" THEN Ok(TRUE, result.cur)
  ELSE IF result.val = "no" THEN Ok(FALSE, result.cur)
  ELSE Err(InvalidEnumValue(result.val, "bool"), result.cur)

\* the match of expect_bool_with_name
match_bool(result) ==
  IF ~result.ok THEN result
  ELSE IF result.val = "yes" THEN Ok(TRUE, result.cur)
  ELSE IF result.val = "no" THEN Ok(FALSE, result.cur)
  ELSE IF result.val = "true" THEN Ok(TRUE, result.cur)
  ELSE IF result.val = "false" THEN Ok(FALSE, result.cur)
  ELSE Err(InvalidEnumValue(result.val, "bool"), result.cur)

\* `let result = list.expect_symbol()?; match result { .. }`
bool_in(list) ==
  IF ~list.ok THEN list
  ELSE Leave(match_bool(expect_symbol(list.val)), list.cur)

\* variant: a missing node reads as `no` instead of failing
expect_bool_with_name_defaulting(p, name) ==
  IF maybe_list_with_name(p, name).val = None THEN Ok(FALSE, p)
  ELSE bool_in(expect_list_with_name(p, name))

expect_bool_with_name(p, name) == bool_in(expect_list_with_name(p, name))

\* variant: the error carries the first token of the list
expect_end_reporting_head(p) ==
  IF p.pos < Len(p.inner)
    THEN Err(ExpectedEndOfList(p.inner[1]), Advance(p))
    ELSE Ok(TRUE, p)

expect_end(p) ==
  IF p.pos < Len(p.inner)
    THEN Err(ExpectedEndOfList(p.inner[p.pos + 1]), Advance(p))
    ELSE Ok(TRUE, p)

\* `list.expect_end().is_ok()`, or false
is_empty(list) ==
  IF list.val = None THEN [val |-> FALSE, cur |-> list.cur]
  ELSE [val |-> expect_end(list.val[1]).ok, cur |-> list.cur]

\* bool in val
maybe_empty_list_with_name(p, name) == is_empty(maybe_list_with_name(p, name))

expect_number_with_name(p, name) == expect_in(expect_list_with_name(p, name), "Number")

maybe_number(p) ==
  IF peek_next(p) # None /\ peek_next(p)[1].k = "Number"
    THEN [val |-> Some(peek_next(p)[1].number), cur |-> Advance(p)]
    ELSE [val |-> None, cur |-> p]

expect_symbol_with_name(p, name) == expect_in(expect_list_with_name(p, name), "Symbol")

\* Result<T> -> Result<Option<T>>
transpose(t) == IF ~t.ok THEN t ELSE Ok(Some(t.val), t.cur)

\* the match of maybe_bool_with_name
match_yes_no(result) ==
  IF ~result.ok THEN result
  ELSE IF result.val = "yes" THEN Ok(TRUE, result.cur)
  ELSE IF result.val = "no" THEN Ok(FALSE, result.cur)
  ELSE Err(InvalidEnumValue(result.val, "bool"), result.cur)

\* `.map(|mut d| { .. }).transpose()`
maybe_bool_in(list) ==
  IF list.val = None THEN Ok(None, list.cur)
  ELSE Leave(transpose(match_yes_no(expect_symbol(list.val[1]))), list.cur)

\* Result<Option<bool>>
maybe_bool_with_name(p, name) == maybe_bool_in(maybe_list_with_name(p, name))

maybe_number_with_name(p, name) == maybe_in(maybe_list_with_name(p, name), "Number")

\* bool in val
maybe_symbol_matching(p, expected) ==
  IF peek_next(p) # None /\ peek_next(p)[1].k = "Symbol"
       /\ peek_next(p)[1].symbol = expected
    THEN [val |-> TRUE, cur |-> Advance(p)]
    ELSE [val |-> FALSE, cur |-> p]

\* the FromSexprRef / MaybeFromSexprRef implementations, by entity type
RECURSIVE from_sexpr_ref(_, _)
RECURSIVE is_present_ref(_, _)

\* T::from_sexpr_ref(self.expect_list()?)
expect_from(list, T0) ==
  IF ~list.ok THEN list ELSE Leave(from_sexpr_ref(T0, list.val), list.cur)

expect(p, T0) == expect_from(expect_list(p), T0)

\* variant: a present node that fails to parse is read as absent
maybe_lenient(p, T0) ==
  IF peek_next(p) = None THEN Ok(None, p)
  ELSE IF peek_next(p)[1].k # "List" THEN Ok(None, p)
  ELSE IF is_present_ref(T0, peek_next(p)[1].list) /\ expect(p, T0).ok
    THEN transpose(expect(p, T0))
  ELSE IF is_present_ref(T0, peek_next(p)[1].list) THEN Ok(None, expect(p, T0).cur)
  ELSE Ok(None, p)

\* Result<Option<T>>
maybe(p, T0) ==
  IF peek_next(p) = None THEN Ok(None, p)
  ELSE IF peek_next(p)[1].k # "List" THEN Ok(None, p)
  ELSE IF is_present_ref(T0, peek_next(p)[1].list) THEN transpose(expect(p, T0))
  ELSE Ok(None, p)

RECURSIVE expect_many(_, _)

\* variant: the values come back in reverse order
push_reversed(item, rest) ==
  IF ~rest.ok THEN rest ELSE Ok(rest.val \o item.val, rest.cur)

\* result.push(item), then the rest of the loop
push(item, rest) ==
  IF ~rest.ok THEN rest ELSE Ok(item.val \o rest.val, rest.cur)

\* variant: a present node that fails to parse ends the sequence
while_let_truncating(item, T0) ==
  IF ~item.ok THEN Ok(<<>>, item.cur)
  ELSE IF item.val = None THEN Ok(<<>>, item.cur)
  ELSE push(item, expect_many(item.cur, T0))

\* one turn of `while let Some(item) = self.maybe::<T>()?`
while_let(item, T0) ==
  IF ~item.ok THEN item
  ELSE IF item.val = None THEN Ok(<<>>, item.cur)
  ELSE push(item, expect_many(item.cur, T0))

expect_many(p, T0) == while_let(maybe(p, T0), T0)

\* `while parser.peek_next().is_some() { parser.expect_next()?; }`
skip_remaining(p) == [p EXCEPT !.pos = Len(p.inner)]

\* SexprListExt::first_symbol
first_symbol(list) ==
  IF Len(list) > 0 /\ list[1].k = "Symbol" THEN Some(list[1].symbol) ELSE None

\* ------------------------------------------------------------------------
\* Token constructors used by the serializers (kicad_sexpr / convert.rs)
\* ------------------------------------------------------------------------
\* concatenation of a sequence of Option<Sexpr> / Vec<Sexpr>, dropping None
Flatten(parts) ==
  LET flat[i \in 0 .. Len(parts)] ==
        IF i = 0 THEN <<>> ELSE flat[i - 1] \o parts[i]
  IN flat[Len(parts)]

list_with_name(name, elements) == List(<<Symbol(name)>> \o elements)
number_with_name(name, n) == List(<<Symbol(name), Number(n)>>)
string_with_name(name, s) == List(<<Symbol(name), String(s)>>)
symbol_with_name(name, s) == List(<<Symbol(name), Symbol(s)>>)
bool_with_name(name, b) ==
  List(<<Symbol(name), Symbol(IF b THEN "yes" ELSE "no")>>)

\* ------------------------------------------------------------------------
\* Identifiers (common/symbol.rs): a well-formed id string parses to a key
\* that re-serializes to the same string; anything else is a typed error.
\* ------------------------------------------------------------------------
WellFormedLibraryIds == {"Device:R", "Device:C"}
WellFormedUnitIds == {"R_0_1", "R_1_1"}

LibraryId_parse(s, c) ==
  IF s \in WellFormedLibraryIds THEN Ok(s, c) ELSE Err(InvalidLibraryId(s), c)
UnitId_parse(s, c) ==
  IF s \in WellFormedUnitIds THEN Ok(s, c) ELSE Err(InvalidUnitId(s), c)
Id_to_sexpr(id) == String(id)

\* ------------------------------------------------------------------------
\* String interning (string_interner.rs)
\* ------------------------------------------------------------------------
init_property_keys ==
  {"Value", "Reference", "Footprint", "Datasheet", "ki_keywords",
   "ki_description", "ki_fp_filters", "D", "in_bom", "on_board",
   "pin_numbers", "power", "extends"}

from_static(s) == [s |-> s, cow |-> "Borrowed"]
from_string(s) == [s |-> s, cow |-> "Owned"]
as_str(interned) == interned.s

intern_property_key(key) ==
  IF key \in init_property_keys THEN from_static(key) ELSE from_string(key)

\* ------------------------------------------------------------------------
\* Position and TextEffects (common.rs)
\* ------------------------------------------------------------------------
Position_to_sexpr(position) ==
  list_with_name("at",
    Flatten(<< Some(Number(position.x)), Some(Number(position.y)),
               IF is_some(position.angle)
                 THEN Some(Number(int_as_f32(position.angle[1]))) ELSE None >>))

TextEffects_from_size(w, h) == [size |-> <<w, h>>, justify |-> None, hide |-> None]

TextEffects_to_sexpr(effects) ==
  list_with_name("effects",
    Flatten(<< Some(list_with_name("font",
                 <<List(<<Symbol("size"), Number(effects.size[1]),
                          Number(effects.size[2])>>)>>)),
               IF is_some(effects.justify)
                 THEN Some(symbol_with_name("justify", effects.justify[1])) ELSE None,
               IF is_some(effects.hide)
                 THEN Some(bool_with_name("hide", effects.hide[1])) ELSE None >>))

\* ------------------------------------------------------------------------
\* The body of a from_sexpr / from_sexpr_ref is a sequence of statements
\*   let field = parser.op(arg)?;
\* run in order on one cursor.  st is the Result so far: its val maps the
\* fields bound so far to their values, its cur is the cursor.  The first
\* error ends the body, as `?` does.
\* ------------------------------------------------------------------------
Stmt(field, op, arg) == [field |-> field, op |-> op, arg |-> arg]

Start(parser) == Ok(<<>>, parser)

\* the cursor method or closure that a statement calls, by name
RECURSIVE Call(_, _, _)

Bind(st, field, r) ==
  IF ~r.ok THEN r ELSE Ok((field :> r.val) @@ st.val, r.cur)

RECURSIVE Run(_, _)
Run(st, stmts) ==
  IF ~st.ok \/ Len(stmts) = 0 THEN st
  ELSE Run(Bind(st, Head(stmts).field, Call(Head(stmts).op, Head(stmts).arg, st)),
           Tail(stmts))

\* statements run on the child cursor of a named list
Within(list, stmts) ==
  IF ~list.ok THEN list ELSE Leave(Run(Start(list.val), stmts), list.cur)

\* a cursor method that returns Option<T> or bool, not a Result
Infallible(r) == Ok(r.val, r.cur)

\* ------------------------------------------------------------------------
\* Borrowing grammar (symbol_library_fast.rs)
\* ------------------------------------------------------------------------
\* `else if let Some(hide_value) = parser.maybe_bool_with_name("hide")? .. else ..`
hide_value(h) ==
  IF ~h.ok THEN h
  ELSE IF is_some(h.val)
    THEN Ok([hide |-> h.val[1], hide_legacy_format |-> FALSE], h.cur)
  ELSE Ok([hide |-> FALSE, hide_legacy_format |-> FALSE], h.cur)

\* `if parser.maybe_symbol_matching("hide") { (true, true) } else ..`
PinNamesFast_hide(p) ==
  IF maybe_symbol_matching(p, "hide").val
    THEN Ok([hide |-> TRUE, hide_legacy_format |-> TRUE],
            maybe_symbol_matching(p, "hide").cur)
  ELSE hide_value(maybe_bool_with_name(p, "hide"))

PinNamesFast_Ok(st) ==
  IF ~st.ok THEN st
  ELSE Ok([offset |-> st.val.offset,
           hide |-> st.val.hide.hide,
           hide_legacy_format |-> st.val.hide.hide_legacy_format], st.cur)

PinNamesFast_from_sexpr_ref(parser) ==
  PinNamesFast_Ok(Run(Start(parser), <<
    Stmt("_", "expect_symbol_matching", "pin_names"),
    Stmt("offset", "maybe_number_with_name", "offset"),
    Stmt("hide", "PinNamesFast::hide", ""),
    Stmt("_", "expect_end", "") >>))

PinNamesFast_is_present_ref(sexpr) == first_symbol(sexpr) = Some("pin_names")

\* variant: a hidden pin name is always written as the bare symbol
PinNamesFast_to_sexpr_bare_hide(self) ==
  list_with_name("pin_names",
    Flatten(<< IF is_some(self.offset)
                 THEN Some(number_with_name("offset", self.offset[1])) ELSE None,
               IF self.hide THEN Some(Symbol("hide")) ELSE None >>))

PinNamesFast_to_sexpr(self) ==
  list_with_name("pin_names",
    Flatten(<< IF is_some(self.offset)
                 THEN Some(number_with_name("offset", self.offset[1])) ELSE None,
               IF self.hide /\ self.hide_legacy_format THEN Some(Symbol("hide"))
               ELSE IF self.hide THEN Some(bool_with_name("hide", TRUE))
               ELSE None >>))

\* the statements on position_parser
position_parser(p) ==
  Within(expect_list_with_name(p, "at"), <<
    Stmt("x", "expect_number", ""),
    Stmt("y", "expect_number", ""),
    Stmt("angle", "maybe_number", ""),
    Stmt("_", "expect_end", "") >>)

\* Position { x, y, angle: angle.map(|a| a as i16) }
Position(at) ==
  [x |-> at.x, y |-> at.y,
   angle |-> IF is_some(at.angle) THEN Some(f32_as_i16(at.angle[1])) ELSE None]

\* an `effects` list, if next, is consumed unread; the value is the default
SymbolPropertyFast_effects(p) ==
  Ok(TextEffects_from_size(F(1), F(1)), maybe_list_with_name(p, "effects").cur)

SymbolPropertyFast_Ok(st) ==
  IF ~st.ok THEN st
  ELSE Ok([key |-> intern_property_key(st.val.key),
           value |-> st.val.value,
           position |-> Position(st.val.position),
           show_name |-> st.val.show_name,
           do_not_autoplace |-> st.val.do_not_autoplace,
           effects |-> st.val.effects,
           legacy_id |-> IF is_some(st.val.legacy_id)
                           THEN Some(f32_as_i32(st.val.legacy_id[1])) ELSE None],
          st.cur)

SymbolPropertyFast_from_sexpr_ref(parser) ==
  SymbolPropertyFast_Ok(Run(Start(parser), <<
    Stmt("_", "expect_symbol_matching", "property"),
    Stmt("key", "expect_string", ""),
    Stmt("value", "expect_string", ""),
    Stmt("legacy_id", "maybe_number_with_name", "id"),
    Stmt("position", "position_parser", ""),
    Stmt("show_name", "maybe_empty_list_with_name", "show_name"),
    Stmt("do_not_autoplace", "maybe_empty_list_with_name", "do_not_autoplace"),
    Stmt("effects", "SymbolPropertyFast::effects", ""),
    Stmt("_", "expect_end", "") >>))

SymbolPropertyFast_is_present_ref(sexpr) == first_symbol(sexpr) = Some("property")

SymbolPropertyFast_to_sexpr(self) ==
  list_with_name("property",
    Flatten(<< Some(String(as_str(self.key))),
               Some(String(self.value)),
               IF is_some(self.legacy_id)
                 THEN Some(number_with_name("id", int_as_f32(self.legacy_id[1])))
                 ELSE None,
               Some(Position_to_sexpr(self.position)),
               IF self.show_name THEN Some(list_with_name("show_name", <<>>)) ELSE None,
               IF self.do_not_autoplace
                 THEN Some(list_with_name("do_not_autoplace", <<>>)) ELSE None,
               Some(TextEffects_to_sexpr(self.effects)) >>))

LibSymbolSubUnitFast_Ok(st) ==
  IF ~st.ok THEN st
  ELSE Ok([id |-> st.val.id, unit_name |-> st.val.unit_name,
           graphic_items |-> <<>>, pins |-> <<>>], st.cur)

LibSymbolSubUnitFast_from_sexpr_ref(parser) ==
  LibSymbolSubUnitFast_Ok(Run(Start(parser), <<
    Stmt("_", "expect_symbol_matching", "symbol"),
    Stmt("id_str", "expect_string", ""),
    Stmt("id", "parse::<UnitId>", "id_str"),
    Stmt("unit_name", "maybe_string_with_name", "unit_name"),
    Stmt("_", "skip_remaining", "") >>))

LibSymbolSubUnitFast_is_present_ref(sexpr) == first_symbol(sexpr) = Some("symbol")

LibSymbolSubUnitFast_to_sexpr(self) ==
  list_with_name("symbol",
    Flatten(<< Some(Id_to_sexpr(self.id)),
               IF is_some(self.unit_name)
                 THEN Some(string_with_name("unit_name", self.unit_name[1])) ELSE None,
               self.graphic_items,
               self.pins >>))

\* variant: looks for an `extends` list among all remaining children
is_derived_anywhere(parser) ==
  \E i \in (parser.pos + 1) .. Len(parser.inner) :
     /\ parser.inner[i].k = "List"
     /\ Len(parser.inner[i].list) > 0
     /\ parser.inner[i].list[1] = Symbol("extends")

\* the structural peek shared by SymbolDefinition and SymbolDefinitionFast
is_derived(parser) ==
  IF peek_next(parser) = None THEN FALSE
  ELSE IF peek_next(parser)[1].k # "List" THEN FALSE
  ELSE IF Len(peek_next(parser)[1].list) = 0 THEN FALSE
  ELSE IF peek_next(parser)[1].list[1].k # "Symbol" THEN FALSE
  ELSE peek_next(parser)[1].list[1].symbol = "extends"

\* `?` then the next call on the same cursor
then_end(t) == IF ~t.ok THEN t ELSE expect_end(t.cur)

\* `.map(|mut p| { p.expect_symbol_matching("hide")?; p.expect_end()?; Ok(()) })
\*  .transpose()?.is_some()`
hide_only(list) ==
  IF list.val = None THEN Ok(FALSE, list.cur)
  ELSE Leave(then_end(expect_symbol_matching(list.val[1], "hide")), list.cur)

pin_numbers_hide(parser) == hide_only(maybe_list_with_name(parser, "pin_numbers"))

\* the statements of the derived branch, the same in both grammars but for
\* the cursor type whose expect_many they call
DerivedSymbol_Ok(st) ==
  IF ~st.ok THEN st
  ELSE Ok([variant |-> "DerivedSymbol", id |-> st.val.id,
           extends |-> st.val.extends, properties |-> st.val.properties], st.cur)

LibSymbolFast_Ok(st) ==
  IF ~st.ok THEN st
  ELSE Ok([variant |-> "RootSymbol", id |-> st.val.id,
           power |-> st.val.power,
           hide_pin_numbers |-> st.val.hide_pin_numbers,
           pin_names |-> st.val.pin_names,
           exclude_from_sim |-> st.val.exclude_from_sim,
           in_bom |-> st.val.in_bom,
           on_board |-> st.val.on_board,
           properties |-> st.val.properties,
           graphic_items |-> <<>>,
           pins |-> <<>>,
           units |-> st.val.units,
           embedded_fonts |-> st.val.embedded_fonts], st.cur)

\* `if is_derived { .. } else { .. }`
SymbolDefinitionFast_branch(st) ==
  IF ~st.ok THEN st
  ELSE IF st.val.is_derived
    THEN DerivedSymbol_Ok(Run(st, <<
      Stmt("extends", "expect_string_with_name", "extends"),
      Stmt("properties", "expect_many", "SymbolProperty"),
      Stmt("_", "expect_end", "") >>))
  ELSE LibSymbolFast_Ok(Run(st, <<
      Stmt("power", "maybe_empty_list_with_name", "power"),
      Stmt("hide_pin_numbers", "pin_numbers_hide", ""),
      Stmt("pin_names", "maybe", "PinNames"),
      Stmt("exclude_from_sim", "maybe_bool_with_name", "exclude_from_sim"),
      Stmt("in_bom", "expect_bool_with_name", "in_bom"),
      Stmt("on_board", "expect_bool_with_name", "on_board"),
      Stmt("properties", "expect_many", "SymbolProperty"),
      Stmt("units", "expect_many", "LibSymbolSubUnit"),
      Stmt("embedded_fonts", "maybe_bool_with_name", "embedded_fonts"),
      Stmt("_", "skip_remaining", "") >>))

SymbolDefinitionFast_from_sexpr_ref(parser) ==
  SymbolDefinitionFast_branch(Run(Start(parser), <<
    Stmt("_", "expect_symbol_matching", "symbol"),
    Stmt("id_str", "expect_string", ""),
    Stmt("id", "parse::<LibraryId>", "id_str"),
    Stmt("is_derived", "is_derived", "") >>))

\* variant: the test also asks for the id string
SymbolDefinitionFast_is_present_ref_with_id(sexpr) ==
  /\ first_symbol(sexpr) = Some("symbol")
  /\ Len(sexpr) >= 2
  /\ sexpr[2].k = "String"

SymbolDefinitionFast_is_present_ref(sexpr) == first_symbol(sexpr) = Some("symbol")

LibSymbolFast_to_sexpr(self) ==
  list_with_name("symbol",
    Flatten(<< Some(Id_to_sexpr(self.id)),
               IF self.power THEN Some(list_with_name("power", <<>>)) ELSE None,
               IF self.hide_pin_numbers
                 THEN Some(symbol_with_name("pin_numbers", "hide")) ELSE None,
               IF is_some(self.pin_names)
                 THEN Some(PinNamesFast_to_sexpr(self.pin_names[1])) ELSE None,
               IF is_some(self.exclude_from_sim)
                 THEN Some(bool_with_name("exclude_from_sim", self.exclude_from_sim[1]))
                 ELSE None,
               Some(bool_with_name("in_bom", self.in_bom)),
               Some(bool_with_name("on_board", self.on_board)),
               [i \in 1 .. Len(self.properties) |-> SymbolPropertyFast_to_sexpr(self.properties[i])],
               self.graphic_items,
               self.pins,
               [i \in 1 .. Len(self.units) |-> LibSymbolSubUnitFast_to_sexpr(self.units[i])],
               IF is_some(self.embedded_fonts)
                 THEN Some(bool_with_name("embedded_fonts", self.embedded_fonts[1]))
                 ELSE None >>))

DerivedLibSymbolFast_to_sexpr(self) ==
  list_with_name("symbol",
    <<Id_to_sexpr(self.id), string_with_name("extends", self.extends)>>
      \o [i \in 1 .. Len(self.properties) |-> SymbolPropertyFast_to_sexpr(self.properties[i])])

SymbolDefinitionFast_to_sexpr(self) ==
  IF self.variant = "RootSymbol" THEN LibSymbolFast_to_sexpr(self)
  ELSE DerivedLibSymbolFast_to_sexpr(self)

\* `(s, true)` / `(s, false)` after `gen_parser.expect_end()?`
generator_pair(s, is_string) ==
  IF ~s.ok THEN s
  ELSE IF ~expect_end(s.cur).ok THEN expect_end(s.cur)
  ELSE Ok([generator |-> s.val, generator_is_string |-> is_string], s.cur)

\* the match on gen_parser.peek_next()
generator_of(gen_parser) ==
  IF ~gen_parser.ok THEN gen_parser
  ELSE IF peek_next(gen_parser.val) = None
    THEN Err(UnexpectedEndOfList, gen_parser.cur)
  ELSE IF peek_next(gen_parser.val)[1].k = "String"
    THEN Leave(generator_pair(expect_string(gen_parser.val), TRUE), gen_parser.cur)
  ELSE IF peek_next(gen_parser.val)[1].k = "Symbol"
    THEN Leave(generator_pair(expect_symbol(gen_parser.val), FALSE), gen_parser.cur)
  ELSE Err(UnexpectedSexprType("String"), gen_parser.cur)

\* variant: the spelling of the generator is not recorded
generator_block_spelling_lost(parser) ==
  LET gen == generator_of(expect_list_with_name(parser, "generator"))
  IN IF ~gen.ok THEN gen
     ELSE Ok([gen.val EXCEPT !.generator_is_string = TRUE], gen.cur)

\* the generator block shared verbatim by both library parsers
generator_block(parser) == generator_of(expect_list_with_name(parser, "generator"))

\* Ok(Self { version, generator, generator_is_string, generator_version,
\* symbols }), the same fields in both grammars
SymbolLibraryFile_Ok(st) ==
  IF ~st.ok THEN st
  ELSE Ok([version |-> f32_as_u32(st.val.version),
           generator |-> st.val.gen.generator,
           generator_is_string |-> st.val.gen.generator_is_string,
           generator_version |-> st.val.generator_version,
           symbols |-> st.val.symbols], st.cur)

SymbolLibraryFileFast_from_sexpr_ref(parser) ==
  SymbolLibraryFile_Ok(Run(Start(parser), <<
    Stmt("_", "expect_symbol_matching", "kicad_symbol_lib"),
    Stmt("version", "expect_number_with_name", "version"),
    Stmt("gen", "generator_block", ""),
    Stmt("generator_version", "maybe_string_with_name", "generator_version"),
    Stmt("symbols", "expect_many", "SymbolDefinition"),
    Stmt("_", "expect_end", "") >>))

SymbolLibraryFileFast_to_sexpr(self) ==
  list_with_name("kicad_symbol_lib",
    Flatten(<< Some(number_with_name("version", int_as_f32(self.version))),
               Some(IF self.generator_is_string
                      THEN string_with_name("generator", self.generator)
                      ELSE symbol_with_name("generator", self.generator)),
               IF is_some(self.generator_version)
                 THEN Some(string_with_name("generator_version", self.generator_version[1]))
                 ELSE None,
               [i \in 1 .. Len(self.symbols) |-> SymbolDefinitionFast_to_sexpr(self.symbols[i])] >>))

\* parse_symbol_library_file_fast, from the token tree on
parse_symbol_library_file_fast(sexpr) ==
  IF sexpr.k # "List" THEN Err(UnexpectedSexprType("List"), new(<<>>))
  ELSE SymbolLibraryFileFast_from_sexpr_ref(new(sexpr.list))

\* ------------------------------------------------------------------------
\* Owning cursor (convert.rs).  Same contract as the borrowing cursor; the
\* optional readers that the owning grammar calls with `?` return a Result.
\* ------------------------------------------------------------------------
\* `self.maybe_list_with_name(name).map(|mut l| l.expect_K()).transpose()`
Parser_maybe_in(list, kind) ==
  IF list.val = None THEN Ok(None, list.cur)
  ELSE Leave(transpose(let_else(expect_next(list.val[1]), kind)), list.cur)

Parser_maybe_string_with_name(p, name) ==
  Parser_maybe_in(maybe_list_with_name(p, name), "String")

Parser_maybe_number_with_name(p, name) ==
  Parser_maybe_in(maybe_list_with_name(p, name), "Number")

Parser_is_empty(list) ==
  IF list.val = None THEN Ok(FALSE, list.cur)
  ELSE Leave(expect_end(list.val[1]), list.cur)

Parser_maybe_empty_list_with_name(p, name) ==
  Parser_is_empty(maybe_list_with_name(p, name))

\* the FromSexpr / MaybeFromSexpr implementations, by entity type
RECURSIVE from_sexpr(_, _)
RECURSIVE is_present(_, _)

Parser_expect_from(list, T0) ==
  IF ~list.ok THEN list ELSE Leave(from_sexpr(T0, list.val), list.cur)

Parser_expect(p, T0) == Parser_expect_from(expect_list(p), T0)

Parser_maybe(p, T0) ==
  IF peek_next(p) = None THEN Ok(None, p)
  ELSE IF peek_next(p)[1].k # "List" THEN Ok(None, p)
  ELSE IF is_present(T0, peek_next(p)[1].list) THEN transpose(Parser_expect(p, T0))
  ELSE Ok(None, p)

RECURSIVE Parser_expect_many(_, _)

Parser_while_let(item, T0) ==
  IF ~item.ok THEN item
  ELSE IF item.val = None THEN Ok(<<>>, item.cur)
  ELSE push(item, Parser_expect_many(item.cur, T0))

Parser_expect_many(p, T0) == Parser_while_let(Parser_maybe(p, T0), T0)

\* ------------------------------------------------------------------------
\* Owning leaf entities (common.rs, common/symbol.rs)
\* ------------------------------------------------------------------------
size_parser(p) ==
  Within(expect_list_with_name(p, "size"), <<
    Stmt("w", "expect_number", ""),
    Stmt("h", "expect_number", ""),
    Stmt("_", "expect_end", "") >>)

font_parser(p) ==
  Within(expect_list_with_name(p, "font"), <<
    Stmt("size", "size_parser", ""),
    Stmt("_", "expect_end", "") >>)

TextEffects_justify(p) ==
  IF maybe_list_with_name(p, "justify").val = None THEN Ok(None, p)
  ELSE transpose(expect_symbol_with_name(p, "justify"))

TextEffects_Ok(st) ==
  IF ~st.ok THEN st
  ELSE Ok([size |-> <<st.val.font.size.w, st.val.font.size.h>>,
           justify |-> st.val.justify,
           hide |-> st.val.hide], st.cur)

TextEffects_from_sexpr(parser) ==
  TextEffects_Ok(Run(Start(parser), <<
    Stmt("_", "expect_symbol_matching", "effects"),
    Stmt("font", "font_parser", ""),
    Stmt("justify", "TextEffects::justify", ""),
    Stmt("hide", "maybe_bool_with_name", "hide"),
    Stmt("_", "expect_end", "") >>))

PinNames_from_sexpr(parser) ==
  PinNamesFast_Ok(Run(Start(parser), <<
    Stmt("_", "expect_symbol_matching", "pin_names"),
    Stmt("offset", "Parser::maybe_number_with_name", "offset"),
    Stmt("hide", "PinNamesFast::hide", ""),
    Stmt("_", "expect_end", "") >>))

PinNames_is_present(sexpr) == first_symbol(sexpr) = Some("pin_names")

PinNames_to_sexpr(self) ==
  list_with_name("pin_names",
    Flatten(<< IF is_some(self.offset)
                 THEN Some(number_with_name("offset", self.offset[1])) ELSE None,
               IF self.hide /\ self.hide_legacy_format THEN Some(Symbol("hide"))
               ELSE IF self.hide THEN Some(bool_with_name("hide", TRUE))
               ELSE None >>))

SymbolProperty_Ok(st) ==
  IF ~st.ok THEN st
  ELSE Ok([key |-> st.val.key,
           value |-> st.val.value,
           position |-> Position(st.val.position),
           show_name |-> st.val.show_name,
           do_not_autoplace |-> st.val.do_not_autoplace,
           effects |-> st.val.effects,
           legacy_id |-> IF is_some(st.val.legacy_id)
                           THEN Some(f32_as_i32(st.val.legacy_id[1])) ELSE None],
          st.cur)

SymbolProperty_from_sexpr(parser) ==
  SymbolProperty_Ok(Run(Start(parser), <<
    Stmt("_", "expect_symbol_matching", "property"),
    Stmt("key", "expect_string", ""),
    Stmt("value", "expect_string", ""),
    Stmt("legacy_id", "Parser::maybe_number_with_name", "id"),
    Stmt("position", "position_parser", ""),
    Stmt("show_name", "Parser::maybe_empty_list_with_name", "show_name"),
    Stmt("do_not_autoplace", "Parser::maybe_empty_list_with_name", "do_not_autoplace"),
    Stmt("effects", "Parser::expect", "TextEffects"),
    Stmt("_", "expect_end", "") >>))

SymbolProperty_is_present(sexpr) == first_symbol(sexpr) = Some("property")

SymbolProperty_to_sexpr(self) ==
  list_with_name("property",
    Flatten(<< Some(String(self.key)),
               Some(String(self.value)),
               IF is_some(self.legacy_id)
                 THEN Some(number_with_name("id", int_as_f32(self.legacy_id[1])))
                 ELSE None,
               Some(Position_to_sexpr(self.position)),
               IF self.show_name THEN Some(list_with_name("show_name", <<>>)) ELSE None,
               IF self.do_not_autoplace
                 THEN Some(list_with_name("do_not_autoplace", <<>>)) ELSE None,
               Some(TextEffects_to_sexpr(self.effects)) >>))

\* graphic items and pins are kept as the nodes that were read
GraphicsKeywords == {"rectangle", "polyline"}
GraphicsItem_is_present(sexpr) ==
  is_some(first_symbol(sexpr)) /\ first_symbol(sexpr)[1] \in GraphicsKeywords
Pin_is_present(sexpr) == first_symbol(sexpr) = Some("pin")
Opaque_from_sexpr(parser) == Ok(List(parser.inner), skip_remaining(parser))

LibSymbolSubUnit_Ok(st) ==
  IF ~st.ok THEN st
  ELSE Ok([id |-> st.val.id, unit_name |-> st.val.unit_name,
           graphic_items |-> st.val.graphic_items, pins |-> st.val.pins], st.cur)

LibSymbolSubUnit_from_sexpr(parser) ==
  LibSymbolSubUnit_Ok(Run(Start(parser), <<
    Stmt("_", "expect_symbol_matching", "symbol"),
    Stmt("id_str", "expect_string", ""),
    Stmt("id", "parse::<UnitId>", "id_str"),
    Stmt("unit_name", "Parser::maybe_string_with_name", "unit_name"),
    Stmt("graphic_items", "Parser::expect_many", "GraphicsItem"),
    Stmt("pins", "Parser::expect_many", "Pin"),
    Stmt("_", "expect_end", "") >>))

LibSymbolSubUnit_is_present(sexpr) == first_symbol(sexpr) = Some("symbol")

LibSymbolSubUnit_to_sexpr(self) ==
  list_with_name("symbol",
    Flatten(<< Some(Id_to_sexpr(self.id)),
               IF is_some(self.unit_name)
                 THEN Some(string_with_name("unit_name", self.unit_name[1])) ELSE None,
               self.graphic_items,
               self.pins >>))

LibSymbol_to_sexpr(self) ==
  list_with_name("symbol",
    Flatten(<< Some(Id_to_sexpr(self.id)),
               IF self.power THEN Some(list_with_name("power", <<>>)) ELSE None,
               IF self.hide_pin_numbers
                 THEN Some(symbol_with_name("pin_numbers", "hide")) ELSE None,
               IF is_some(self.pin_names)
                 THEN Some(PinNames_to_sexpr(self.pin_names[1])) ELSE None,
               Some(bool_with_name("in_bom", self.in_bom)),
               Some(bool_with_name("on_board", self.on_board)),
               [i \in 1 .. Len(self.properties) |-> SymbolProperty_to_sexpr(self.properties[i])],
               [i \in 1 .. Len(self.units) |-> LibSymbolSubUnit_to_sexpr(self.units[i])] >>))

\* ------------------------------------------------------------------------
\* Owning grammar (symbol_library.rs)
\* ------------------------------------------------------------------------
Parser_pin_numbers_hide(parser) == pin_numbers_hide(parser)

LibSymbol_Ok(st) ==
  IF ~st.ok THEN st
  ELSE Ok([variant |-> "RootSymbol", id |-> st.val.id,
           power |-> st.val.power,
           hide_pin_numbers |-> st.val.hide_pin_numbers,
           pin_names |-> st.val.pin_names,
           in_bom |-> st.val.in_bom,
           on_board |-> st.val.on_board,
           properties |-> st.val.properties,
           units |-> st.val.units], st.cur)

\* `if is_derived { .. } else { .. }`
SymbolDefinition_branch(st) ==
  IF ~st.ok THEN st
  ELSE IF st.val.is_derived
    THEN DerivedSymbol_Ok(Run(st, <<
      Stmt("extends", "expect_string_with_name", "extends"),
      Stmt("properties", "Parser::expect_many", "SymbolProperty"),
      Stmt("_", "expect_end", "") >>))
  ELSE LibSymbol_Ok(Run(st, <<
      Stmt("power", "Parser::maybe_empty_list_with_name", "power"),
      Stmt("hide_pin_numbers", "Parser::pin_numbers_hide", ""),
      Stmt("pin_names", "Parser::maybe", "PinNames"),
      Stmt("in_bom", "expect_bool_with_name", "in_bom"),
      Stmt("on_board", "expect_bool_with_name", "on_board"),
      Stmt("properties", "Parser::expect_many", "SymbolProperty"),
      Stmt("units", "Parser::expect_many", "LibSymbolSubUnit"),
      Stmt("_", "expect_end", "") >>))

SymbolDefinition_from_sexpr(parser) ==
  SymbolDefinition_branch(Run(Start(parser), <<
    Stmt("_", "expect_symbol_matching", "symbol"),
    Stmt("id_str", "expect_string", ""),
    Stmt("id", "parse::<LibraryId>", "id_str"),
    Stmt("is_derived", "is_derived", "") >>))

SymbolDefinition_is_present(sexpr) == first_symbol(sexpr) = Some("symbol")

DerivedLibSymbol_to_sexpr(self) ==
  list_with_name("symbol",
    Flatten(<< Some(Id_to_sexpr(self.id)),
               Some(string_with_name("extends", self.extends)),
               [i \in 1 .. Len(self.properties) |-> SymbolProperty_to_sexpr(self.properties[i])] >>))

SymbolDefinition_to_sexpr(self) ==
  IF self.variant = "RootSymbol" THEN LibSymbol_to_sexpr(self)
  ELSE DerivedLibSymbol_to_sexpr(self)

SymbolLibraryFile_from_sexpr(parser) ==
  SymbolLibraryFile_Ok(Run(Start(parser), <<
    Stmt("_", "expect_symbol_matching", "kicad_symbol_lib"),
    Stmt("version", "expect_number_with_name", "version"),
    Stmt("gen", "generator_block", ""),
    Stmt("generator_version", "Parser::maybe_string_with_name", "generator_version"),
    Stmt("symbols", "Parser::expect_many", "SymbolDefinition"),
    Stmt("_", "expect_end", "") >>))

SymbolLibraryFile_to_sexpr(self) ==
  list_with_name("kicad_symbol_lib",
    Flatten(<< Some(number_with_name("version", int_as_f32(self.version))),
               Some(IF self.generator_is_string
                      THEN string_with_name("generator", self.generator)
                      ELSE symbol_with_name("generator", self.generator)),
               IF is_some(self.generator_version)
                 THEN Some(string_with_name("generator_version", self.generator_version[1]))
                 ELSE None,
               [i \in 1 .. Len(self.symbols) |-> SymbolDefinition_to_sexpr(self.symbols[i])] >>))

\* ------------------------------------------------------------------------
\* From<...Fast> conversions (symbol_library_fast.rs)
\* ------------------------------------------------------------------------
SymbolProperty_from(fast) == [fast EXCEPT !.key = fast.key.s]
PinNames_from(fast) ==
  [offset |-> fast.offset, hide |-> fast.hide,
   hide_legacy_format |-> fast.hide_legacy_format]
LibSymbolSubUnit_from(fast) ==
  [id |-> fast.id, unit_name |-> fast.unit_name,
   graphic_items |-> fast.graphic_items, pins |-> fast.pins]
LibSymbol_from(fast) ==
  [fast EXCEPT !.pin_names = [i \in 1 .. Len(@) |-> PinNames_from(@[i])],
               !.properties = [i \in 1 .. Len(@) |-> SymbolProperty_from(@[i])],
               !.units = [i \in 1 .. Len(@) |-> LibSymbolSubUnit_from(@[i])]]
DerivedLibSymbol_from(fast) ==
  [fast EXCEPT !.properties = [i \in 1 .. Len(@) |-> SymbolProperty_from(@[i])]]
SymbolDefinition_from(fast) ==
  IF fast.variant = "RootSymbol" THEN LibSymbol_from(fast)
  ELSE DerivedLibSymbol_from(fast)
SymbolLibraryFile_from(fast) ==
  [version |-> fast.version,
   generator |-> fast.generator,
   generator_is_string |-> fast.generator_is_string,
   generator_version |-> fast.generator_version,
   symbols |-> [i \in 1 .. Len(fast.symbols) |-> SymbolDefinition_from(fast.symbols[i])]]

\* ------------------------------------------------------------------------
\* Trait dispatch: FromSexprRef / FromSexpr / ToSexpr / From per entity type
\* ------------------------------------------------------------------------
from_sexpr_ref(T0, parser) ==
  CASE T0 = "SymbolLibraryFile" -> SymbolLibraryFileFast_from_sexpr_ref(parser)
    [] T0 = "SymbolDefinition" -> SymbolDefinitionFast_from_sexpr_ref(parser)
    [] T0 = "SymbolProperty" -> SymbolPropertyFast_from_sexpr_ref(parser)
    [] T0 = "PinNames" -> PinNamesFast_from_sexpr_ref(parser)
    [] T0 = "LibSymbolSubUnit" -> LibSymbolSubUnitFast_from_sexpr_ref(parser)

is_present_ref(T0, sexpr) ==
  CASE T0 = "SymbolDefinition" -> SymbolDefinitionFast_is_present_ref(sexpr)
    [] T0 = "SymbolProperty" -> SymbolPropertyFast_is_present_ref(sexpr)
    [] T0 = "PinNames" -> PinNamesFast_is_present_ref(sexpr)
    [] T0 = "LibSymbolSubUnit" -> LibSymbolSubUnitFast_is_present_ref(sexpr)

from_sexpr(T0, parser) ==
  CASE T0 = "SymbolLibraryFile" -> SymbolLibraryFile_from_sexpr(parser)
    [] T0 = "SymbolDefinition" -> SymbolDefinition_from_sexpr(parser)
    [] T0 = "SymbolProperty" -> SymbolProperty_from_sexpr(parser)
    [] T0 = "PinNames" -> PinNames_from_sexpr(parser)
    [] T0 = "LibSymbolSubUnit" -> LibSymbolSubUnit_from_sexpr(parser)
    [] T0 = "TextEffects" -> TextEffects_from_sexpr(parser)
    [] T0 \in {"GraphicsItem", "Pin"} -> Opaque_from_sexpr(parser)

is_present(T0, sexpr) ==
  CASE T0 = "SymbolDefinition" -> SymbolDefinition_is_present(sexpr)
    [] T0 = "SymbolProperty" -> SymbolProperty_is_present(sexpr)
    [] T0 = "PinNames" -> PinNames_is_present(sexpr)
    [] T0 = "LibSymbolSubUnit" -> LibSymbolSubUnit_is_present(sexpr)
    [] T0 = "GraphicsItem" -> GraphicsItem_is_present(sexpr)
    [] T0 = "Pin" -> Pin_is_present(sexpr)

to_sexpr_fast(T0, self) ==
  CASE T0 = "SymbolLibraryFile" -> SymbolLibraryFileFast_to_sexpr(self)
    [] T0 = "SymbolDefinition" -> SymbolDefinitionFast_to_sexpr(self)
    [] T0 = "SymbolProperty" -> SymbolPropertyFast_to_sexpr(self)
    [] T0 = "PinNames" -> PinNamesFast_to_sexpr(self)
    [] T0 = "LibSymbolSubUnit" -> LibSymbolSubUnitFast_to_sexpr(self)

to_sexpr(T0, self) ==
  CASE T0 = "SymbolLibraryFile" -> SymbolLibraryFile_to_sexpr(self)
    [] T0 = "SymbolDefinition" -> SymbolDefinition_to_sexpr(self)
    [] T0 = "SymbolProperty" -> SymbolProperty_to_sexpr(self)
    [] T0 = "PinNames" -> PinNames_to_sexpr(self)
    [] T0 = "LibSymbolSubUnit" -> LibSymbolSubUnit_to_sexpr(self)

from(T0, fast) ==
  CASE T0 = "SymbolLibraryFile" -> SymbolLibraryFile_from(fast)
    [] T0 = "SymbolDefinition" -> SymbolDefinition_from(fast)
    [] T0 = "SymbolProperty" -> SymbolProperty_from(fast)
    [] T0 = "PinNames" -> PinNames_from(fast)
    [] T0 = "LibSymbolSubUnit" -> LibSymbolSubUnit_from(fast)

\* the call a statement makes on the cursor st.cur.  The methods of the
\* owning cursor that differ from the borrowing one carry the Parser:: prefix;
\* the others have the same contract on both.
Call(op, arg, st) ==
  CASE op = "expect_symbol_matching" -> expect_symbol_matching(st.cur, arg)
    [] op = "expect_string" -> expect_string(st.cur)
    [] op = "expect_number" -> expect_number(st.cur)
    [] op = "expect_end" -> expect_end(st.cur)
    [] op = "expect_string_with_name" -> expect_string_with_name(st.cur, arg)
    [] op = "expect_number_with_name" -> expect_number_with_name(st.cur, arg)
    [] op = "expect_bool_with_name" -> expect_bool_with_name(st.cur, arg)
    [] op = "maybe_bool_with_name" -> maybe_bool_with_name(st.cur, arg)
    [] op = "maybe_number" -> Infallible(maybe_number(st.cur))
    [] op = "maybe_number_with_name" -> Infallible(maybe_number_with_name(st.cur, arg))
    [] op = "maybe_string_with_name" -> Infallible(maybe_string_with_name(st.cur, arg))
    [] op = "maybe_empty_list_with_name" ->
         Infallible(maybe_empty_list_with_name(st.cur, arg))
    [] op = "skip_remaining" -> Ok(TRUE, skip_remaining(st.cur))
    [] op = "is_derived" -> Ok(is_derived(st.cur), st.cur)
    [] op = "parse::<LibraryId>" -> LibraryId_parse(st.val[arg], st.cur)
    [] op = "parse::<UnitId>" -> UnitId_parse(st.val[arg], st.cur)
    [] op = "expect_many" -> expect_many(st.cur, arg)
    [] op = "maybe" -> maybe(st.cur, arg)
    [] op = "pin_numbers_hide" -> pin_numbers_hide(st.cur)
    [] op = "generator_block" -> generator_block(st.cur)
    [] op = "position_parser" -> position_parser(st.cur)
    [] op = "PinNamesFast::hide" -> PinNamesFast_hide(st.cur)
    [] op = "SymbolPropertyFast::effects" -> SymbolPropertyFast_effects(st.cur)
    [] op = "size_parser" -> size_parser(st.cur)
    [] op = "font_parser" -> font_parser(st.cur)
    [] op = "TextEffects::justify" -> TextEffects_justify(st.cur)
    [] op = "Parser::maybe_number_with_name" ->
         Parser_maybe_number_with_name(st.cur, arg)
    [] op = "Parser::maybe_string_with_name" ->
         Parser_maybe_string_with_name(st.cur, arg)
    [] op = "Parser::maybe_empty_list_with_name" ->
         Parser_maybe_empty_list_with_name(st.cur, arg)
    [] op = "Parser::expect" -> Parser_expect(st.cur, arg)
    [] op = "Parser::maybe" -> Parser_maybe(st.cur, arg)
    [] op = "Parser::expect_many" -> Parser_expect_many(st.cur, arg)
    [] op = "Parser::pin_numbers_hide" -> Parser_pin_numbers_hide(st.cur)

\* what the caller of a parse sees: Ok(model) or Err(error)
Outcome(r) ==
  IF r.ok THEN [ok |-> TRUE, val |-> r.val] ELSE [ok |-> FALSE, err |-> r.err]

\* ------------------------------------------------------------------------
\* Input trees.  MaxProps bounds the number of property nodes that follow
\* in a symbol node; MaxSymbols the number of symbols of a multi-symbol
\* library.
\* ------------------------------------------------------------------------
MaxProps == 2
MaxSymbols == 2

SeqsUpTo(S, n) == UNION {[1 .. k -> S] : k \in 0 .. n}

Node(name, children) == List(<<Symbol(name)>> \o children)

DefaultEffects ==
  Node("effects", <<Node("font", <<Node("size", <<Number(F(1)), Number(F(1))>>)>>)>>)
RichEffects ==
  Node("effects", <<Node("font", <<Node("size", <<Number(FH(1)), Number(FH(1))>>)>>),
                    symbol_with_name("justify", "left"),
                    bool_with_name("hide", TRUE)>>)

Property(key, children) == Node("property", <<String(key), String("10k")>> \o children)

PlainProperty == Property("Value", <<Node("at", <<Number(F(0)), Number(F(0))>>), DefaultEffects>>)

IdOptions ==
  {<<>>, <<number_with_name("id", F(1))>>, <<number_with_name("id", FH(1))>>,
   <<string_with_name("id", "1")>>}
AtOptions ==
  {<<Node("at", <<Number(F(0)), Number(F(0))>>)>>,
   <<Node("at", <<Number(F(1)), Number(FH(2)), Number(F(90))>>)>>,
   <<Node("at", <<Number(F(1))>>)>>,
   <<>>}
ShowNameOptions == {<<>>, <<Node("show_name", <<>>)>>, <<Node("show_name", <<Symbol("x")>>)>>}
EffectsOptions == {<<>>, <<DefaultEffects>>, <<RichEffects>>}

PropertyNodes ==
  {Property(key, id \o at \o sn \o eff) :
     key \in {"Value", "Custom"}, id \in IdOptions, at \in AtOptions,
     sn \in ShowNameOptions, eff \in EffectsOptions}
  \cup {Property("Value", <<Node("at", <<Number(F(0)), Number(F(0))>>),
                           Node("do_not_autoplace", <<>>), DefaultEffects>>),
        Property("Value", <<Node("at", <<Number(F(0)), Number(F(0))>>),
                           DefaultEffects, Symbol("extra")>>),
        Property("Value", <<Node("at", <<Number(F(0)), Number(F(0))>>),
                           number_with_name("id", F(1)), DefaultEffects>>)}

PropsFollowing == SeqsUpTo({PlainProperty}, MaxProps)

PinNamesNodes ==
  {Node("pin_names", c) :
     c \in {<<>>,
            <<Symbol("hide")>>,
            <<bool_with_name("hide", TRUE)>>,
            <<bool_with_name("hide", FALSE)>>,
            <<number_with_name("offset", F(1))>>,
            <<number_with_name("offset", F(1)), Symbol("hide")>>,
            <<number_with_name("offset", FH(0)), bool_with_name("hide", FALSE)>>,
            <<string_with_name("offset", "1"), bool_with_name("hide", TRUE)>>,
            <<symbol_with_name("hide", "maybe")>>,
            <<symbol_with_name("hide", "true")>>,
            <<Symbol("hide"), Symbol("extra")>>}}

UnitNodes ==
  {Node("symbol", c) :
     c \in {<<String("R_0_1")>>,
            <<String("R_1_1"), string_with_name("unit_name", "A")>>,
            <<String("R_1_1"), number_with_name("unit_name", F(5))>>,
            <<String("R_0_1"), Node("rectangle", <<>>), Node("pin", <<Symbol("input")>>)>>,
            <<String("R_0_1"), Node("pin", <<>>), Node("rectangle", <<>>)>>,
            <<String("bad")>>,
            <<>>}}

SymbolNode(id, body) == Node("symbol", <<String(id)>> \o body)

InBom == bool_with_name("in_bom", TRUE)
OnBoard == bool_with_name("on_board", TRUE)
Extends == string_with_name("extends", "Base")

RootHeads ==
  {pw \o pn \o pnm \o efs \o ib \o <<OnBoard>> :
     pw \in {<<>>, <<Node("power", <<>>)>>, <<Node("power", <<Symbol("x")>>)>>},
     pn \in {<<>>, <<symbol_with_name("pin_numbers", "hide")>>,
             <<symbol_with_name("pin_numbers", "show")>>},
     pnm \in {<<>>, <<Node("pin_names", <<Symbol("hide")>>)>>,
              <<Node("pin_names", <<bool_with_name("hide", TRUE)>>)>>,
              <<Node("pin_names", <<bool_with_name("hide", FALSE)>>)>>},
     efs \in {<<>>, <<bool_with_name("exclude_from_sim", FALSE)>>},
     ib \in {<<>>, <<InBom>>, <<symbol_with_name("in_bom", "true")>>,
             <<symbol_with_name("in_bom", "maybe")>>}}

RootTails ==
  {props \o units \o ef \o rest :
     props \in PropsFollowing,
     units \in {<<>>, <<Node("symbol", <<String("R_0_1")>>)>>,
                <<Node("symbol", <<String("R_1_1"), string_with_name("unit_name", "A"),
                                   Node("rectangle", <<>>)>>)>>},
     ef \in {<<>>, <<bool_with_name("embedded_fonts", FALSE)>>},
     rest \in {<<>>, <<Node("rectangle", <<>>)>>}}

RootNodes ==
  {SymbolNode("Device:R", h) : h \in RootHeads}
  \cup {SymbolNode("Device:R", <<InBom, OnBoard>> \o t) : t \in RootTails}

DerivedNodes ==
  {SymbolNode("Device:C", e \o props \o tail) :
     e \in {<<Extends>>,
            <<Node("extends", <<String("Base"), String("Extra")>>)>>,
            <<symbol_with_name("extends", "Base")>>,
            <<Node("extends", <<>>)>>},
     props \in PropsFollowing,
     tail \in {<<>>, <<InBom, OnBoard>>}}

\* what may stand right after the id without being an `extends` list
LookaheadEdges ==
  {<<Symbol("extends")>>, <<String("extends")>>, <<List(<<>>)>>,
   <<List(<<String("extends"), String("Base")>>)>>,
   <<List(<<List(<<Symbol("extends")>>)>>)>>, <<Number(F(1))>>}

EdgeNodes ==
  {SymbolNode("Device:R", e \o <<InBom, OnBoard>> \o props) :
     e \in LookaheadEdges, props \in PropsFollowing}
  \cup {SymbolNode("Device:R", e) : e \in LookaheadEdges \cup {<<>>}}
  \cup {SymbolNode("Device:R", props \o <<Extends>>) : props \in PropsFollowing \ {<<>>}}
  \cup {SymbolNode("Device:R", <<InBom, OnBoard>> \o props \o <<Extends>>) :
          props \in PropsFollowing}
  \cup {SymbolNode("bad", <<InBom, OnBoard>>), SymbolNode("bad", <<Extends>>),
        Node("symbol", <<InBom, OnBoard>>), Node("symbol", <<Symbol("Device:R"), Extends>>)}

PropertyCarriers ==
  {SymbolNode("Device:R", <<InBom, OnBoard, p>>) : p \in PropertyNodes}
  \cup {SymbolNode("Device:C", <<Extends, p>>) : p \in PropertyNodes}

SymbolNodes == RootNodes \cup DerivedNodes \cup EdgeNodes

Version == number_with_name("version", F(1))
Generator == symbol_with_name("generator", "kicad_symbol_editor")

Library(children) == Node("kicad_symbol_lib", children)

VersionOptions ==
  {<<Version>>, <<number_with_name("version", FH(1))>>,
   <<number_with_name("version", F(-1))>>, <<string_with_name("version", "1")>>, <<>>}
GeneratorOptions ==
  {<<Generator>>, <<string_with_name("generator", "kicad_symbol_editor")>>,
   <<number_with_name("generator", F(1))>>, <<Node("generator", <<>>)>>,
   <<Node("generator", <<Symbol("a"), Symbol("b")>>)>>,
   <<Node("generator", <<List(<<>>)>>)>>, <<>>}
GeneratorVersionOptions ==
  {<<>>, <<string_with_name("generator_version", "9.0")>>,
   <<number_with_name("generator_version", F(9))>>,
   <<Node("generator_version", <<>>)>>}

BaseRoot == SymbolNode("Device:R", <<InBom, OnBoard>>)
BaseDerived == SymbolNode("Device:C", <<Extends>>)

EnvelopeDocs ==
  {Library(v \o g \o gv \o syms) :
     v \in VersionOptions, g \in GeneratorOptions, gv \in GeneratorVersionOptions,
     syms \in {<<>>, <<BaseRoot>>}}
  \cup {Library(<<Version, Generator, Symbol("extra")>>),
        Library(<<Generator, Version>>),
        Node("kicad_sch", <<Version, Generator>>),
        List(<<>>)}

SymbolDocs ==
  {Library(<<Version, Generator, s>>) : s \in SymbolNodes \cup PropertyCarriers}

ManySymbolDocs ==
  {Library(<<Version, Generator>> \o syms) :
     syms \in SeqsUpTo({BaseRoot, BaseDerived,
                        SymbolNode("Device:R", <<OnBoard>>)}, MaxSymbols)}

Inputs ==
  {[T |-> "SymbolLibraryFile", doc |-> d] :
     d \in EnvelopeDocs \cup SymbolDocs \cup ManySymbolDocs}
  \cup {[T |-> "SymbolDefinition", doc |-> d] : d \in SymbolNodes}
  \cup {[T |-> "SymbolProperty", doc |-> d] : d \in PropertyNodes}
  \cup {[T |-> "PinNames", doc |-> d] : d \in PinNamesNodes}
  \cup {[T |-> "LibSymbolSubUnit", doc |-> d] : d \in UnitNodes}

\* ------------------------------------------------------------------------
\* State: one input tree and what each path has produced from it so far
\* ------------------------------------------------------------------------
VARIABLES
  T,             \* entity type the input is parsed as
  doc,           \* the input token tree (a List node)
  owning,        \* Option<Result>: T::from_sexpr(Parser::new(doc))
  fast,          \* Option<Result>: TFast::from_sexpr_ref(ParserRef::new(doc))
  owning_out,    \* Option<Sexpr>: to_sexpr of the owning model
  fast_out,      \* Option<Sexpr>: to_sexpr of the fast model
  converted,     \* Option<T>: T::from(fast model)
  owning_again,  \* Option<Result>: owning parse of owning_out
  fast_again,    \* Option<Result>: fast parse of fast_out
  cursor,        \* a ParserRef over one sibling sequence
  other,         \* a second ParserRef: a clone of cursor, or a child it returned
  call,          \* the last method called on cursor: name, argument, cursor before, return value
  once,          \* PROPERTY_KEY_INTERNER: the OnceLock and the table it holds
  threads,       \* per thread: where it is in intern_property_key, its key, its result
  inits          \* number of times init_property_keys has been entered

\* the variables of one parse / write / reparse of a tree
tvars == <<T, doc, owning, fast, owning_out, fast_out, converted, owning_again, fast_again>>
\* the variables of one cursor
cvars == <<cursor, other, call>>
\* the variables of the interner and the threads that call it
ivars == <<once, threads, inits>>

vars == <<T, doc, owning, fast, owning_out, fast_out, converted, owning_again, fast_again,
          cursor, other, call, once, threads, inits>>

\* no cursor is under test
NoCursor ==
  /\ cursor = new(<<>>)
  /\ other = [kind |-> "none", p |-> new(<<>>)]
  /\ call = [op |-> "none"]

\* no thread is in the interner
NoThreads ==
  /\ once = [state |-> "Incomplete"]
  /\ threads = <<>>
  /\ inits = 0

Init ==
  /\ \E input \in Inputs : T = input.T /\ doc = input.doc
  /\ owning = None
  /\ fast = None
  /\ owning_out = None
  /\ fast_out = None
  /\ converted = None
  /\ owning_again = None
  /\ fast_again = None
  /\ NoCursor
  /\ NoThreads

ParseOwning ==
  /\ owning = None
  /\ owning' = Some(Outcome(from_sexpr(T, new(doc.list))))
  /\ UNCHANGED <<T, doc, fast, owning_out, fast_out, converted, owning_again, fast_again, cursor, other, call, once, threads, inits>>

ParseFast ==
  /\ fast = None
  /\ fast' = Some(Outcome(from_sexpr_ref(T, new(doc.list))))
  /\ UNCHANGED <<T, doc, owning, owning_out, fast_out, converted, owning_again, fast_again, cursor, other, call, once, threads, inits>>

SerializeOwning ==
  /\ owning # None
  /\ owning[1].ok
  /\ owning_out = None
  /\ owning_out' = Some(to_sexpr(T, owning[1].val))
  /\ UNCHANGED <<T, doc, owning, fast, fast_out, converted, owning_again, fast_again, cursor, other, call, once, threads, inits>>

SerializeFast ==
  /\ fast # None
  /\ fast[1].ok
  /\ fast_out = None
  /\ fast_out' = Some(to_sexpr_fast(T, fast[1].val))
  /\ UNCHANGED <<T, doc, owning, fast, owning_out, converted, owning_again, fast_again, cursor, other, call, once, threads, inits>>

Convert ==
  /\ fast # None
  /\ fast[1].ok
  /\ converted = None
  /\ converted' = Some(from(T, fast[1].val))
  /\ UNCHANGED <<T, doc, owning, fast, owning_out, fast_out, owning_again, fast_again, cursor, other, call, once, threads, inits>>

ReparseOwning ==
  /\ owning_out # None
  /\ owning_again = None
  /\ owning_again' = Some(Outcome(from_sexpr(T, new(owning_out[1].list))))
  /\ UNCHANGED <<T, doc, owning, fast, owning_out, fast_out, converted, fast_again, cursor, other, call, once, threads, inits>>

ReparseFast ==
  /\ fast_out # None
  /\ fast_again = None
  /\ fast_again' = Some(Outcome(from_sexpr_ref(T, new(fast_out[1].list))))
  /\ UNCHANGED <<T, doc, owning, fast, owning_out, fast_out, converted, owning_again, cursor, other, call, once, threads, inits>>

Next ==
  \/ ParseOwning
  \/ ParseFast
  \/ SerializeOwning
  \/ SerializeFast
  \/ Convert
  \/ ReparseOwning
  \/ ReparseFast

Spec == Init /\ [][Next]_vars

\* ------------------------------------------------------------------------
\* Vocabulary of the properties
\* ------------------------------------------------------------------------
IsNamed(node, name) ==
  node.k = "List" /\ Len(node.list) > 0 /\ node.list[1] = Symbol(name)

ChildrenNamed(node, name) == SelectSeq(node.list, LAMBDA c : IsNamed(c, name))

RECURSIVE ListNodes(_)
ListNodes(t) ==
  IF t.k # "List" THEN {}
  ELSE {t} \cup UNION {ListNodes(t.list[i]) : i \in 1 .. Len(t.list)}

IsLibrary == T = "SymbolLibraryFile"

\* C1: owning round trip: whenever SymbolLibraryFile::from_sexpr accepts the
\* tree, to_sexpr of the model is the tree that was read.
C1_OwningRoundTrip ==
  (IsLibrary /\ owning_out # None) => owning_out[1] = doc

\* C2: fast round trip: whenever SymbolLibraryFileFast::from_sexpr_ref accepts
\* the tree, to_sexpr of the model has the symbol nodes that were read, none
\* of their children dropped, defaulted or spelled differently.
C2_FastRoundTrip ==
  (IsLibrary /\ fast_out # None) =>
     ChildrenNamed(fast_out[1], "symbol") = ChildrenNamed(doc, "symbol")

\* the fields of a root symbol that SymbolDefinition::from_sexpr sets
ParsedFields ==
  {"variant", "id", "power", "hide_pin_numbers", "pin_names", "in_bom",
   "on_board", "properties", "units"}

\* a symbol model seen through the fields the owning parser sets
OnParsedFields(symbol) ==
  IF symbol.variant = "RootSymbol" THEN [f \in ParsedFields |-> symbol[f]] ELSE symbol

\* a library model with its symbols seen through those fields
LibraryOnParsedFields(file) ==
  [file EXCEPT !.symbols = [i \in 1 .. Len(@) |-> OnParsedFields(@[i])]]

\* C3: the owning and the borrowing parser agree on every tree: both fail or
\* both succeed, and the converted fast model equals the owning model, on
\* every field the owning parser gives a value.
C3_ParsersAgree ==
  (IsLibrary /\ owning # None /\ fast # None) =>
     /\ owning[1].ok = fast[1].ok
     /\ (converted # None /\ owning[1].ok) =>
          LibraryOnParsedFields(converted[1]) = owning[1].val

\* the element right after the id string is a list headed by `extends`
ExtendsFollowsId(node) ==
  /\ Len(node.list) >= 3
  /\ IsNamed(node.list[3], "extends")

TriedRootGrammar(r) ==
  ~r.ok /\ r.err.e = "NonMatchingSymbol" /\ r.err.expected \in {"in_bom", "on_board"}
TriedDerivedGrammar(r) ==
  ~r.ok /\ r.err.e = "NonMatchingSymbol" /\ r.err.expected = "extends"

Classified(node, r) ==
  /\ r.ok => (r.val.variant = "DerivedSymbol" <=> ExtendsFollowsId(node))
  /\ ExtendsFollowsId(node) => ~TriedRootGrammar(r)
  /\ ~ExtendsFollowsId(node) => ~TriedDerivedGrammar(r)

ClassifiedAll(r) ==
  r.ok => \A i \in 1 .. Len(r.val.symbols) :
            (r.val.symbols[i].variant = "DerivedSymbol")
              <=> ExtendsFollowsId(ChildrenNamed(doc, "symbol")[i])

\* C4: a symbol node is parsed as Derived exactly when an `extends` list
\* immediately follows the id, and by the root grammar otherwise, in both
\* paths and however many property nodes follow.
C4_Disambiguation ==
  /\ (T = "SymbolDefinition" /\ owning # None) => Classified(doc, owning[1])
  /\ (T = "SymbolDefinition" /\ fast # None) => Classified(doc, fast[1])
  /\ (IsLibrary /\ owning # None) => ClassifiedAll(owning[1])
  /\ (IsLibrary /\ fast # None) => ClassifiedAll(fast[1])

C4_Witness ==
  /\ T = "SymbolDefinition"
  /\ owning # None /\ owning[1].ok /\ owning[1].val.variant = "DerivedSymbol"
  /\ fast # None /\ fast[1].ok /\ fast[1].val.variant = "DerivedSymbol"
  /\ Len(fast[1].val.properties) = MaxProps

\* the generator node holds exactly one symbol or one string
HasGeneratorAtom(d) ==
  /\ Len(d.list) >= 3
  /\ IsNamed(d.list[3], "generator")
  /\ Len(d.list[3].list) = 2
  /\ d.list[3].list[2].k \in {"Symbol", "String"}

AtomText(tok) == IF tok.k = "Symbol" THEN tok.symbol ELSE tok.string
OtherSpelling(tok) ==
  IF tok.k = "Symbol" THEN String(tok.symbol) ELSE Symbol(tok.string)
Twin(d) == [d EXCEPT !.list[3].list[2] = OtherSpelling(@)]

GeneratorFaithful(r, twin, out) ==
  /\ (r # None /\ r[1].ok) =>
       /\ r[1].val.generator = AtomText(doc.list[3].list[2])
       /\ r[1].val.generator_is_string = (doc.list[3].list[2].k = "String")
       /\ twin.ok
       /\ twin.val = [r[1].val EXCEPT !.generator_is_string = ~@]
  /\ out # None => out[1].list[3] = doc.list[3]

\* C5: `(generator X)` and `(generator "X")` parse to the same name X, the two
\* models differ only in generator_is_string, and each is written back in the
\* spelling it was read in.
C5_GeneratorLegacyEquivalence ==
  (IsLibrary /\ HasGeneratorAtom(doc)) =>
     /\ GeneratorFaithful(owning, Outcome(from_sexpr(T, new(Twin(doc).list))), owning_out)
     /\ GeneratorFaithful(fast, Outcome(from_sexpr_ref(T, new(Twin(doc).list))), fast_out)

C5_Witness ==
  /\ IsLibrary /\ HasGeneratorAtom(doc)
  /\ doc.list[3].list[2].k = "Symbol"
  /\ owning_out # None /\ fast_out # None

HideSpellings ==
  {Symbol("hide"), bool_with_name("hide", TRUE), bool_with_name("hide", FALSE)}

\* `(pin_names [ (offset n) ] <hide spelling>)`
HasHideSpelling(d) ==
  /\ Len(d.list) \in {2, 3}
  /\ d.list[Len(d.list)] \in HideSpellings
  /\ Len(d.list) = 3 =>
       (IsNamed(d.list[2], "offset") /\ Len(d.list[2].list) = 2
          /\ d.list[2].list[2].k = "Number")

\* C6: each of `hide`, `(hide yes)`, `(hide no)` parses, and
\* PinNamesFast::to_sexpr writes back the spelling that was read.
C6_HideSpellingPreserved ==
  (T = "PinNames" /\ HasHideSpelling(doc)) =>
     /\ fast # None => fast[1].ok
     /\ fast_out # None =>
          /\ Len(fast_out[1].list) = Len(doc.list)
          /\ fast_out[1].list[Len(doc.list)] = doc.list[Len(doc.list)]

\* `(property "k" "v" (id N) (at ...) ...)`
HasLegacyId(d) ==
  /\ Len(d.list) >= 5
  /\ IsNamed(d.list[4], "id")
  /\ Len(d.list[4].list) = 2
  /\ d.list[4].list[2].k = "Number"
  /\ IsNamed(d.list[5], "at")

\* C7: an `(id N)` node right before `(at ...)` is recorded as N and written
\* back as `(id N)` at that position; without it legacy_id is absent and no id
\* node is written.
C7_LegacyIdPassThrough ==
  T = "SymbolProperty" =>
     /\ (HasLegacyId(doc) /\ fast # None /\ fast[1].ok) =>
          /\ is_some(fast[1].val.legacy_id)
          /\ int_as_f32(fast[1].val.legacy_id[1]) = doc.list[4].list[2].number
     /\ (HasLegacyId(doc) /\ fast_out # None) =>
          /\ fast_out[1].list[4] = doc.list[4]
          /\ IsNamed(fast_out[1].list[5], "at")
     /\ (ChildrenNamed(doc, "id") = <<>> /\ fast # None /\ fast[1].ok) =>
          fast[1].val.legacy_id = None
     /\ (ChildrenNamed(doc, "id") = <<>> /\ fast_out # None) =>
          ChildrenNamed(fast_out[1], "id") = <<>>

\* a named single-value or marker node whose payload has the wrong shape
Malformed(n) ==
  \/ /\ \/ IsNamed(n, "generator_version")
        \/ IsNamed(n, "unit_name")
     /\ ~(Len(n.list) = 2 /\ n.list[2].k = "String")
  \/ /\ \/ IsNamed(n, "id")
        \/ IsNamed(n, "offset")
     /\ ~(Len(n.list) = 2 /\ n.list[2].k = "Number")
  \/ /\ \/ IsNamed(n, "power")
        \/ IsNamed(n, "show_name")
        \/ IsNamed(n, "do_not_autoplace")
     /\ Len(n.list) # 1

HasMalformedNode(d) == \E n \in ListNodes(d) : Malformed(n)

\* C8: a document with a malformed node anywhere is rejected as a whole by
\* both parsers.
C8_NoPartialDocuments ==
  (IsLibrary /\ HasMalformedNode(doc)) =>
     /\ owning # None => ~owning[1].ok
     /\ fast # None => ~fast[1].ok

\* a root-variant symbol node without an in_bom child
LacksInBom(node) ==
  /\ IsNamed(node, "symbol")
  /\ ~ExtendsFollowsId(node)
  /\ ChildrenNamed(node, "in_bom") = <<>>

ContainsSymbolLackingInBom ==
  \/ T = "SymbolDefinition" /\ LacksInBom(doc)
  \/ IsLibrary /\ \E i \in 1 .. Len(doc.list) : LacksInBom(doc.list[i])

TypedError(r) == ~r.ok /\ r.err.e \in ErrorKinds
OkOrTypedError(r) == r # None => (r[1].ok \/ TypedError(r[1]))

\* C9: a root symbol node without in_bom makes the symbol parser, and the
\* library parser around it, return a typed error in both paths; every parse
\* ends in Ok or in a typed error.
C9_ErrorNotPanic ==
  /\ OkOrTypedError(owning) /\ OkOrTypedError(fast)
  /\ OkOrTypedError(owning_again) /\ OkOrTypedError(fast_again)
  /\ ContainsSymbolLackingInBom =>
        /\ owning # None => TypedError(owning[1])
        /\ fast # None => TypedError(fast[1])

C9_Witness ==
  /\ T = "SymbolDefinition"
  /\ doc = SymbolNode("Device:R", <<OnBoard>>)
  /\ owning # None /\ TypedError(owning[1])
  /\ fast # None /\ TypedError(fast[1])

\* C10: parsing what was serialized succeeds and gives the model that was
\* serialized, in both paths, also when the serialization differs from the
\* input.
C10_ParseSerializeParse ==
  IsLibrary =>
     /\ owning_again # None => (owning_again[1].ok /\ owning_again[1].val = owning[1].val)
     /\ fast_again # None => (fast_again[1].ok /\ fast_again[1].val = fast[1].val)

C10_Witness ==
  /\ IsLibrary
  /\ fast_again # None /\ fast_out[1] # doc
  /\ owning_again # None /\ owning_out[1] # doc

\* ------------------------------------------------------------------------
\* One ParserRef under a sequence of method calls.  MaxTokens bounds the
\* length of the sibling sequence the cursor is created over.
\* ------------------------------------------------------------------------
MaxTokens == 2

Tokens ==
  {Symbol("hide"), String("a"), Number(F(1)),
   List(<<>>), List(<<String("hide")>>),
   symbol_with_name("hide", "yes"), symbol_with_name("hide", "true"),
   symbol_with_name("hide", "no"), symbol_with_name("hide", "false"),
   symbol_with_name("hide", "maybe"),
   Node("hide", <<Symbol("yes"), Symbol("no")>>),
   Node("pin_names", <<>>), Node("pin_names", <<Symbol("hide")>>),
   Node("pin_names", <<symbol_with_name("hide", "maybe")>>)}

\* the tokens that follow the first one
Followers ==
  {Symbol("hide"), symbol_with_name("hide", "yes"),
   Node("pin_names", <<>>), Node("pin_names", <<Symbol("hide")>>),
   Node("pin_names", <<symbol_with_name("hide", "maybe")>>)}

Siblings ==
  {<<>>} \cup {<<t>> \o rest : t \in Tokens, rest \in SeqsUpTo(Followers, MaxTokens - 1)}

\* the keyword arguments of the calls
Keywords == {"hide", "pin_names"}

\* the T of maybe::<T>, expect::<T> and expect_many::<T>
CursorTypes == {"PinNames"}

\* no tree is being parsed
NoTree ==
  /\ T = "Cursor"
  /\ doc = List(<<>>)
  /\ owning = None
  /\ fast = None
  /\ owning_out = None
  /\ fast_out = None
  /\ converted = None
  /\ owning_again = None
  /\ fast_again = None

\* ParserRef::new(inner)
CursorInit ==
  /\ NoTree
  /\ \E inner \in Siblings : cursor = new(inner)
  /\ other = [kind |-> "none", p |-> new(<<>>)]
  /\ call = [op |-> "new"]
  /\ NoThreads

\* expect_end takes the cursor by value: no call can follow it
Live == call.op # "expect_end"

\* a `&mut self` method was called: ret.cur is the cursor as the call left it
Method(op, arg, ret) ==
  /\ Live
  /\ call' = [op |-> op, arg |-> arg, before |-> cursor, ret |-> ret]
  /\ cursor' = ret.cur
  /\ UNCHANGED <<tvars, ivars>>

\* the ParserRef a call returned, when it returned one
Returned(ret) ==
  IF ret.ok THEN [kind |-> "child", p |-> ret.val] ELSE other
ReturnedMaybe(ret) ==
  IF is_some(ret.val) THEN [kind |-> "child", p |-> ret.val[1]] ELSE other

PeekNext ==
  /\ Method("peek_next", "", [val |-> peek_next(cursor), cur |-> cursor])
  /\ UNCHANGED other

ExpectNext ==
  /\ Method("expect_next", "", expect_next(cursor))
  /\ UNCHANGED other

ExpectList ==
  /\ Method("expect_list", "", expect_list(cursor))
  /\ other' = Returned(expect_list(cursor))

ExpectListWithName ==
  \E name \in Keywords :
    /\ Method("expect_list_with_name", name, expect_list_with_name(cursor, name))
    /\ other' = Returned(expect_list_with_name(cursor, name))

MaybeListWithName ==
  \E name \in Keywords :
    /\ Method("maybe_list_with_name", name, maybe_list_with_name(cursor, name))
    /\ other' = ReturnedMaybe(maybe_list_with_name(cursor, name))

ExpectSymbol ==
  /\ Method("expect_symbol", "", expect_symbol(cursor))
  /\ UNCHANGED other

ExpectSymbolMatching ==
  \E expected \in Keywords :
    /\ Method("expect_symbol_matching", expected, expect_symbol_matching(cursor, expected))
    /\ UNCHANGED other

ExpectString ==
  /\ Method("expect_string", "", expect_string(cursor))
  /\ UNCHANGED other

ExpectStringWithName ==
  \E name \in {"hide"} :
    /\ Method("expect_string_with_name", name, expect_string_with_name(cursor, name))
    /\ UNCHANGED other

MaybeStringWithName ==
  \E name \in {"hide"} :
    /\ Method("maybe_string_with_name", name, maybe_string_with_name(cursor, name))
    /\ UNCHANGED other

ExpectNumber ==
  /\ Method("expect_number", "", expect_number(cursor))
  /\ UNCHANGED other

ExpectBoolWithName ==
  \E name \in {"hide"} :
    /\ Method("expect_bool_with_name", name, expect_bool_with_name(cursor, name))
    /\ UNCHANGED other

MaybeEmptyListWithName ==
  \E name \in {"hide"} :
    /\ Method("maybe_empty_list_with_name", name, maybe_empty_list_with_name(cursor, name))
    /\ UNCHANGED other

ExpectEnd ==
  /\ Method("expect_end", "", expect_end(cursor))
  /\ UNCHANGED other

ExpectNumberWithName ==
  \E name \in {"hide"} :
    /\ Method("expect_number_with_name", name, expect_number_with_name(cursor, name))
    /\ UNCHANGED other

MaybeNumber ==
  /\ Method("maybe_number", "", maybe_number(cursor))
  /\ UNCHANGED other

ExpectSymbolWithName ==
  \E name \in {"hide"} :
    /\ Method("expect_symbol_with_name", name, expect_symbol_with_name(cursor, name))
    /\ UNCHANGED other

MaybeBoolWithName ==
  \E name \in {"hide"} :
    /\ Method("maybe_bool_with_name", name, maybe_bool_with_name(cursor, name))
    /\ UNCHANGED other

MaybeNumberWithName ==
  \E name \in {"hide"} :
    /\ Method("maybe_number_with_name", name, maybe_number_with_name(cursor, name))
    /\ UNCHANGED other

MaybeSymbolMatching ==
  \E expected \in {"hide"} :
    /\ Method("maybe_symbol_matching", expected, maybe_symbol_matching(cursor, expected))
    /\ UNCHANGED other

Expect ==
  \E T0 \in CursorTypes :
    /\ Method("expect", T0, expect(cursor, T0))
    /\ UNCHANGED other

Maybe ==
  \E T0 \in CursorTypes :
    /\ Method("maybe", T0, maybe(cursor, T0))
    /\ UNCHANGED other

ExpectMany ==
  \E T0 \in CursorTypes :
    /\ Method("expect_many", T0, expect_many(cursor, T0))
    /\ UNCHANGED other

\* #[derive(Clone)]: an independent snapshot of the cursor
Clone ==
  /\ Live
  /\ other' = [kind |-> "clone", p |-> cursor]
  /\ UNCHANGED <<cursor, call>>
  /\ UNCHANGED <<tvars, ivars>>

\* a call on the clone or on the child
OtherExpectNext ==
  /\ other.kind # "none"
  /\ other' = [other EXCEPT !.p = expect_next(other.p).cur]
  /\ UNCHANGED <<cursor, call>>
  /\ UNCHANGED <<tvars, ivars>>

CursorNext ==
  \/ PeekNext
  \/ ExpectNext
  \/ ExpectList
  \/ ExpectListWithName
  \/ MaybeListWithName
  \/ ExpectSymbol
  \/ ExpectSymbolMatching
  \/ ExpectString
  \/ ExpectStringWithName
  \/ MaybeStringWithName
  \/ ExpectNumber
  \/ ExpectBoolWithName
  \/ MaybeEmptyListWithName
  \/ ExpectEnd
  \/ ExpectNumberWithName
  \/ MaybeNumber
  \/ ExpectSymbolWithName
  \/ MaybeBoolWithName
  \/ MaybeNumberWithName
  \/ MaybeSymbolMatching
  \/ Expect
  \/ Maybe
  \/ ExpectMany
  \/ Clone
  \/ OtherExpectNext

CursorSpec == CursorInit /\ [][CursorNext]_vars

\* ------------------------------------------------------------------------
\* Vocabulary of the cursor properties
\* ------------------------------------------------------------------------
AtEnd(p) == p.pos >= Len(p.inner)

\* the first token p has not consumed
NextToken(p) == p.inner[p.pos + 1]

\* p with n more tokens consumed
Moved(p, n) == [inner |-> p.inner, pos |-> p.pos + n]

\* the next token of p is a list whose first child is Symbol(name)
HeadedBy(p, name) == ~AtEnd(p) /\ IsNamed(NextToken(p), name)

\* C11: maybe_list_with_name(keyword) consumes exactly one token and returns
\* the child cursor, positioned after the keyword, when the next token is a
\* list whose first child is Symbol(keyword); in every other case it returns
\* absent and leaves the cursor where it was.
C11_MaybeListWithName ==
  call.op = "maybe_list_with_name" =>
    IF HeadedBy(call.before, call.arg)
      THEN /\ call.ret.val = Some([inner |-> NextToken(call.before).list, pos |-> 1])
           /\ call.ret.cur = Moved(call.before, 1)
      ELSE /\ call.ret.val = None
           /\ call.ret.cur = call.before

C11_Witness ==
  /\ call.op = "maybe_list_with_name"
  /\ HeadedBy(call.before, call.arg)
  /\ call.before.pos = 1
  /\ call.ret.val # None
  /\ Len(call.ret.val[1].inner) = 2

\* T's presence test accepts the next token of p
Present(p, T0) ==
  /\ ~AtEnd(p)
  /\ NextToken(p).k = "List"
  /\ is_present_ref(T0, NextToken(p).list)

\* T's parse of the list that is the next token of p
Parsed(p, T0) == from_sexpr_ref(T0, new(NextToken(p).list))

\* C12: maybe<T> returns Ok(absent) and leaves the cursor unchanged when the
\* cursor is exhausted, the next token is not a list, or T's presence test
\* rejects the list; when the presence test accepts, it consumes exactly one
\* token and returns T's parse of that list, error included.
C12_Maybe ==
  call.op = "maybe" =>
    IF Present(call.before, call.arg)
      THEN /\ call.ret.cur = Moved(call.before, 1)
           /\ call.ret.ok = Parsed(call.before, call.arg).ok
           /\ call.ret.ok => call.ret.val = Some(Parsed(call.before, call.arg).val)
           /\ ~call.ret.ok => call.ret.err = Parsed(call.before, call.arg).err
      ELSE call.ret = Ok(None, call.before)

C12_Witness ==
  /\ call.op = "maybe"
  /\ Present(call.before, call.arg)
  /\ call.before.pos = 1
  /\ ~call.ret.ok
  /\ call.ret.err.e = "InvalidEnumValue"

\* the position of the first token, from p on, that T's presence test rejects
RECURSIVE RunEnd(_, _)
RunEnd(p, T0) == IF Present(p, T0) THEN RunEnd(Moved(p, 1), T0) ELSE p.pos

\* T's parse of each token of the run that starts at p, in source order
RunParses(p, T0) ==
  [i \in 1 .. RunEnd(p, T0) - p.pos |-> Parsed(Moved(p, i - 1), T0)]

\* the first token of the run that fails T's parse
FirstFailure(rs) == CHOOSE i \in DOMAIN rs : ~rs[i].ok /\ \A j \in 1 .. i - 1 : rs[j].ok

\* C13: expect_many<T> returns, in source order, the parsed values of the
\* maximal run of leading tokens that pass T's presence test and leaves the
\* cursor at the first token that does not pass it (or at the end); if a
\* token of the run fails T's parse, the result is that error, not a
\* shortened sequence.
C13_ExpectMany ==
  call.op = "expect_many" =>
    IF \A i \in DOMAIN RunParses(call.before, call.arg) :
         RunParses(call.before, call.arg)[i].ok
      THEN /\ call.ret.ok
           /\ Len(call.ret.val) = RunEnd(call.before, call.arg) - call.before.pos
           /\ \A i \in 1 .. Len(call.ret.val) :
                call.ret.val[i] = RunParses(call.before, call.arg)[i].val
           /\ call.ret.cur.pos = RunEnd(call.before, call.arg)
           /\ call.ret.cur.inner = call.before.inner
      ELSE /\ ~call.ret.ok
           /\ call.ret.err =
                RunParses(call.before, call.arg)[
                  FirstFailure(RunParses(call.before, call.arg))].err

\* a run of two tokens that parse to different values, returned in their order
C13_Witness ==
  /\ call.op = "expect_many"
  /\ call.before.pos = 0
  /\ RunEnd(call.before, call.arg) = MaxTokens
  /\ call.ret.ok
  /\ Len(call.ret.val) = MaxTokens
  /\ call.ret.val[1] # call.ret.val[2]
  /\ call.ret.val[1] = Parsed(call.before, call.arg).val

\* C14: peek never moves the cursor and returns the token the following next
\* returns, or nothing on an exhausted cursor; next moves the cursor by
\* exactly one and returns the tokens of the sibling sequence in order; on
\* an exhausted cursor next fails with UnexpectedEndOfList and the cursor
\* stays where it was.
C14_PeekNext ==
  /\ call.op = "peek_next" =>
       /\ call.ret.cur = call.before
       /\ call.ret.val = IF expect_next(call.before).ok
                           THEN Some(expect_next(call.before).val) ELSE None
  /\ call.op = "expect_next" =>
       IF AtEnd(call.before)
         THEN call.ret = Err(UnexpectedEndOfList, call.before)
         ELSE call.ret = Ok(call.before.inner[call.before.pos + 1],
                            Moved(call.before, 1))
  /\ peek_next(cursor) = IF AtEnd(cursor) THEN None ELSE Some(NextToken(cursor))

C14_Witness ==
  /\ call.op = "expect_next"
  /\ call.before.pos = 1
  /\ call.ret.ok
  /\ call.ret.val = call.before.inner[2]
  /\ peek_next(call.before) = Some(call.ret.val)
  /\ peek_next(cursor) = None

\* the cursor before the call stands at a list (keyword s), s a symbol
BoolNode(p, name) ==
  /\ HeadedBy(p, name)
  /\ Len(NextToken(p).list) >= 2
  /\ NextToken(p).list[2].k = "Symbol"

\* C15: expect_bool_with_name(keyword) on a next token (keyword s) returns
\* true for s in {yes, true}, false for s in {no, false}, and fails with
\* InvalidEnumValue{value: s, enum_name: "bool"} for any other symbol s.
C15_ExpectBoolWithName ==
  (call.op = "expect_bool_with_name" /\ BoolNode(call.before, call.arg)) =>
    /\ call.ret.cur = Moved(call.before, 1)
    /\ NextToken(call.before).list[2].symbol \in {"yes", "true"} =>
         call.ret.ok /\ call.ret.val = TRUE
    /\ NextToken(call.before).list[2].symbol \in {"no", "false"} =>
         call.ret.ok /\ call.ret.val = FALSE
    /\ NextToken(call.before).list[2].symbol \notin {"yes", "true", "no", "false"} =>
         /\ ~call.ret.ok
         /\ call.ret.err = [e |-> "InvalidEnumValue",
                            value |-> NextToken(call.before).list[2].symbol,
                            enum_name |-> "bool"]

C15_Witness ==
  /\ call.op = "expect_bool_with_name"
  /\ BoolNode(call.before, call.arg)
  /\ NextToken(call.before).list[2].symbol = "true"
  /\ call.ret.ok
  /\ call.ret.val = TRUE

\* C16: expect_end returns Ok exactly when the cursor is exhausted;
\* otherwise it fails with ExpectedEndOfList whose found field is the first
\* unconsumed token of that cursor.
C16_ExpectEnd ==
  call.op = "expect_end" =>
    /\ call.ret.ok <=> AtEnd(call.before)
    /\ ~AtEnd(call.before) =>
         call.ret.err = [e |-> "ExpectedEndOfList", found |-> NextToken(call.before)]

C16_Witness ==
  /\ call.op = "expect_end"
  /\ call.before.pos = 1
  /\ Len(call.before.inner) = 2
  /\ call.before.inner[1] # call.before.inner[2]
  /\ ~call.ret.ok
  /\ call.ret.err.found = call.before.inner[2]

\* the kind each typed reader asks for
Requested ==
  [expect_list |-> "List", expect_symbol |-> "Symbol",
   expect_string |-> "String", expect_number |-> "Number"]

\* what a typed reader hands back for a token of its kind
Handed(tok) ==
  CASE tok.k = "List" -> [inner |-> tok.list, pos |-> 0]
    [] tok.k = "Symbol" -> tok.symbol
    [] tok.k = "String" -> tok.string
    [] tok.k = "Number" -> tok.number

\* C17: expect_list, expect_symbol, expect_string and expect_number succeed
\* exactly when the next token has the requested kind, returning a child
\* cursor over the list's contents or the atom's value; on a token of
\* another kind they fail with the token-kind error whose expected field is
\* the requested kind, and on an exhausted cursor with UnexpectedEndOfList.
C17_TypedReaders ==
  call.op \in DOMAIN Requested =>
    IF AtEnd(call.before)
      THEN ~call.ret.ok /\ call.ret.err = [e |-> "UnexpectedEndOfList"]
    ELSE IF NextToken(call.before).k = Requested[call.op]
      THEN call.ret.ok /\ call.ret.val = Handed(NextToken(call.before))
    ELSE /\ ~call.ret.ok
         /\ call.ret.err = [e |-> "UnexpectedSexprType", expected |-> Requested[call.op]]

C17_Witness ==
  /\ call.op = "expect_string"
  /\ ~AtEnd(call.before)
  /\ NextToken(call.before).k = "Number"
  /\ ~call.ret.ok
  /\ call.ret.err.e = "UnexpectedSexprType"
  /\ call.ret.err.expected = "String"

\* the next token of p is a symbol / a list whose first child is a symbol
SymbolAhead(p) == ~AtEnd(p) /\ NextToken(p).k = "Symbol"

HeadAhead(p) ==
  /\ ~AtEnd(p)
  /\ NextToken(p).k = "List"
  /\ Len(NextToken(p).list) > 0
  /\ NextToken(p).list[1].k = "Symbol"

\* C18: expect_symbol_matching(v) succeeds only when the next token is the
\* symbol v and fails with NonMatchingSymbol{found: s, expected: v} on a
\* different symbol s; expect_list_with_name(k) on a list whose first child
\* is a symbol other than k fails with NonMatchingSymbol carrying that
\* symbol and k.
C18_NonMatchingSymbol ==
  /\ call.op = "expect_symbol_matching" =>
       /\ call.ret.ok =>
            SymbolAhead(call.before) /\ NextToken(call.before).symbol = call.arg
       /\ (SymbolAhead(call.before) /\ NextToken(call.before).symbol # call.arg) =>
            /\ ~call.ret.ok
            /\ call.ret.err = [e |-> "NonMatchingSymbol",
                               found |-> NextToken(call.before).symbol,
                               expected |-> call.arg]
  /\ ( /\ call.op = "expect_list_with_name"
       /\ HeadAhead(call.before)
       /\ NextToken(call.before).list[1].symbol # call.arg ) =>
            /\ ~call.ret.ok
            /\ call.ret.err = [e |-> "NonMatchingSymbol",
                               found |-> NextToken(call.before).list[1].symbol,
                               expected |-> call.arg]

C18_Witness ==
  /\ call.op = "expect_list_with_name"
  /\ call.arg = "hide"
  /\ HeadAhead(call.before)
  /\ NextToken(call.before).list[1].symbol = "pin_names"
  /\ ~call.ret.ok
  /\ call.ret.err.found = "pin_names"
  /\ call.ret.err.expected = "hide"

\* the readers that are a loop over other readers
Compound == {"expect_many"}

\* C19: the position of a cursor never decreases under any cursor operation
\* and every primitive operation advances it by at most one token; taking a
\* clone, and operating on a clone or on a child cursor returned by
\* expect_list, leaves the original cursor where it was.
C19_Monotonic ==
  [][ /\ cursor'.inner = cursor.inner
      /\ cursor'.pos >= cursor.pos
      /\ call'.op \notin Compound => cursor'.pos <= cursor.pos + 1
      /\ other'.p # other.p =>
           \/ cursor' = cursor
           \/ /\ other'.kind = "child"
              /\ call'.op \in {"expect_list", "expect_list_with_name", "maybe_list_with_name"}
              /\ cursor' = Moved(cursor, 1)
    ]_vars

C19_Witness ==
  /\ other.kind = "clone"
  /\ other.p.inner = cursor.inner
  /\ Len(cursor.inner) = 2
  /\ other.p.pos = 2
  /\ cursor.pos = 1
  /\ call.op = "expect_next"

\* the nodes a source tree may leave out
OptionalNodes ==
  {"id", "show_name", "do_not_autoplace", "effects", "power", "pin_numbers",
   "pin_names", "exclude_from_sim", "embedded_fonts", "generator_version",
   "unit_name", "hide", "offset", "property", "symbol"}

\* C20: omission rule: a serializer emits the node of an optional field
\* exactly when the stored value is not the absent one (Option fields iff
\* Some, marker fields iff true), and a field whose node was absent in the
\* source tree is not emitted on output.
C20_OmissionRule ==
  fast_out # None =>
    /\ T = "SymbolProperty" =>
         /\ (ChildrenNamed(fast_out[1], "id") # <<>>) = is_some(fast[1].val.legacy_id)
         /\ (ChildrenNamed(fast_out[1], "show_name") # <<>>) = fast[1].val.show_name
         /\ (ChildrenNamed(fast_out[1], "do_not_autoplace") # <<>>)
              = fast[1].val.do_not_autoplace
    /\ \A n \in OptionalNodes :
         ChildrenNamed(doc, n) = <<>> => ChildrenNamed(fast_out[1], n) = <<>>

\* ------------------------------------------------------------------------
\* The interner under concurrent callers (string_interner.rs:57-85).
\* PROPERTY_KEY_INTERNER is a OnceLock: get_or_init returns the stored table
\* when there is one; otherwise the caller enters the initialisation, where
\* one caller runs init_property_keys while the others wait for its result.
\* ------------------------------------------------------------------------
MaxThreads == 2

Threads == 1 .. MaxThreads

\* keys the callers pass: two of the list, one that is not
CallKeys == {"Value", "power", "Custom"}

\* the map.insert calls of init_property_keys, in source order
Inserts ==
  << <<"Value", "Value">>, <<"Reference", "Reference">>, <<"Footprint", "Footprint">>,
     <<"Datasheet", "Datasheet">>, <<"ki_keywords", "ki_keywords">>,
     <<"ki_description", "ki_description">>, <<"ki_fp_filters", "ki_fp_filters">>,
     <<"D", "D">>, <<"in_bom", "in_bom">>, <<"on_board", "on_board">>,
     <<"pin_numbers", "pin_numbers">>, <<"power", "power">>, <<"extends", "extends">> >>

\* HashMap::insert
insert(map, kv) ==
  [k \in DOMAIN map \cup {kv[1]} |-> IF k = kv[1] THEN kv[2] ELSE map[k]]

\* variant: every key gets a fresh allocation
lookup_allocating(interner, key) == from_string(key)

\* `if let Some(&static_key) = interner.get(key) { from_static } else { from_string }`
lookup(interner, key) ==
  IF key \in DOMAIN interner THEN from_static(interner[key]) ELSE from_string(key)

\* variant: check-then-initialise with no exclusion between callers
may_run_unguarded(cell) == TRUE

\* Once: the caller that finds the cell untouched runs the initialiser
may_run(cell) == cell.state = "Incomplete"

Idle == [pc |-> "idle", key |-> "", n |-> 0, local |-> <<>>, result |-> None]

InternInit ==
  /\ NoTree
  /\ NoCursor
  /\ once = [state |-> "Incomplete"]
  /\ threads = [t \in Threads |-> Idle]
  /\ inits = 0

At(t, pc) == threads[t].pc = pc

Goto(t, pc) ==
  /\ threads' = [threads EXCEPT ![t].pc = pc]
  /\ UNCHANGED <<once, inits>>

\* a thread calls intern_property_key(key)
CallIntern ==
  \E t \in Threads, key \in CallKeys :
    /\ At(t, "idle")
    /\ threads' = [threads EXCEPT ![t] = [Idle EXCEPT !.pc = "get_or_init", !.key = key]]
    /\ UNCHANGED <<once, inits>>
    /\ UNCHANGED <<tvars, cvars>>

\* get_or_init, fast path: the table is there
Initialized ==
  \E t \in Threads :
    /\ At(t, "get_or_init")
    /\ once.state = "Complete"
    /\ Goto(t, "get")
    /\ UNCHANGED <<tvars, cvars>>

\* get_or_init, slow path: the table was not there when the caller looked
Initialize ==
  \E t \in Threads :
    /\ At(t, "get_or_init")
    /\ once.state # "Complete"
    /\ Goto(t, "initialize")
    /\ UNCHANGED <<tvars, cvars>>

\* the caller takes the cell and enters init_property_keys: HashMap::new()
BeginInit ==
  \E t \in Threads :
    /\ At(t, "initialize")
    /\ may_run(once)
    /\ once' = [state |-> "Running"]
    /\ threads' = [threads EXCEPT ![t].pc = "init"]
    /\ inits' = inits + 1
    /\ UNCHANGED <<tvars, cvars>>

\* one map.insert of init_property_keys
Insert ==
  \E t \in Threads :
    /\ At(t, "init")
    /\ threads[t].n < Len(Inserts)
    /\ threads' = [threads EXCEPT ![t].n = @ + 1,
                                  ![t].local = insert(@, Inserts[threads[t].n + 1])]
    /\ UNCHANGED <<once, inits>>
    /\ UNCHANGED <<tvars, cvars>>

\* init_property_keys returns its map; the cell stores it and is complete
StoreTable ==
  \E t \in Threads :
    /\ At(t, "init")
    /\ threads[t].n = Len(Inserts)
    /\ once' = [state |-> "Complete", value |-> threads[t].local]
    /\ threads' = [threads EXCEPT ![t].pc = "get", ![t].local = <<>>]
    /\ UNCHANGED inits
    /\ UNCHANGED <<tvars, cvars>>

\* a caller that waited finds the cell complete
Woken ==
  \E t \in Threads :
    /\ At(t, "initialize")
    /\ once.state = "Complete"
    /\ Goto(t, "get")
    /\ UNCHANGED <<tvars, cvars>>

\* interner.get(key) and the InternedString that is returned
Get ==
  \E t \in Threads :
    /\ At(t, "get")
    /\ threads' = [threads EXCEPT ![t].pc = "idle",
                                  ![t].result = Some(lookup(once.value, threads[t].key))]
    /\ UNCHANGED <<once, inits>>
    /\ UNCHANGED <<tvars, cvars>>

InternNext ==
  \/ CallIntern
  \/ Initialized
  \/ Initialize
  \/ BeginInit
  \/ Insert
  \/ StoreTable
  \/ Woken
  \/ Get

InternSpec == InternInit /\ [][InternNext]_vars

\* variant: a borrowed and an owned string never compare equal
InternedString_eq_by_variant(a, b) == a = b

\* #[derive(PartialEq)] on InternedString(Cow<str>): Cow compares the text
\* it holds, borrowed or owned
InternedString_eq(a, b) == as_str(a) = as_str(b)

Returned_to(t) == threads[t].result # None

\* C21: intern_property_key(k) always returns, and what it returns has the
\* text k, for listed and unlisted keys; two calls with the same key return
\* values that compare equal; for a listed key the value is the shared
\* static instance, not a fresh allocation.
C21_InternIdempotence ==
  \A t \in Threads :
    Returned_to(t) =>
      /\ as_str(threads[t].result[1]) = threads[t].key
      /\ threads[t].result[1] = intern_property_key(threads[t].key)
      /\ threads[t].key \in init_property_keys =>
           threads[t].result[1] = from_static(threads[t].key)
      /\ threads[t].key \notin init_property_keys =>
           threads[t].result[1] = from_string(threads[t].key)
      /\ \A u \in Threads :
           (Returned_to(u) /\ threads[u].key = threads[t].key) =>
              InternedString_eq(threads[u].result[1], threads[t].result[1])

C21_Witness ==
  /\ \A t \in Threads : Returned_to(t)
  /\ threads[1].key = "Value"
  /\ threads[2].key = "Value"
  /\ threads[1].result[1].cow = "Borrowed"
  /\ InternedString_eq(threads[1].result[1], threads[2].result[1])

\* the table init_property_keys returns: every listed key, mapped to itself
FullTable == [k \in init_property_keys |-> k]

\* at most one initialisation; a table that is stored is complete; a caller
\* reads the table only once it is stored
InitialisedOnce ==
  /\ inits <= 1
  /\ (once.state = "Incomplete") = (inits = 0)
  /\ once.state = "Complete" => once.value = FullTable
  /\ \A t \in Threads :
       /\ At(t, "get") => (once.state = "Complete" /\ once.value = FullTable)
       /\ At(t, "init") => once.state = "Running"
       /\ Returned_to(t) => once.state = "Complete"

\* C22: when several threads call intern_property_key before the table
\* exists, the table is initialised exactly once, every call in every
\* interleaving reads the fully populated table, and the table is never
\* modified after it was initialised.
C22_ExactlyOnce ==
  /\ []InitialisedOnce
  /\ [][once.state = "Complete" => once' = once]_vars

C22_Witness ==
  /\ once.state = "Complete"
  /\ inits = 1
  /\ At(1, "get")
  /\ At(2, "initialize")

\* #[derive(PartialEq)] on SymbolPropertyFast: field by field, the key by
\* the equality of InternedString
SymbolPropertyFast_eq(a, b) ==
  /\ InternedString_eq(a.key, b.key)
  /\ [a EXCEPT !.key = from_string("")] = [b EXCEPT !.key = from_string("")]

\* the key string of a property node
KeyOf(d) == d.list[2].string

\* C23: interning is unobservable: for every key, listed or not, on a first
\* or a later parse, the parsed SymbolPropertyFast compares equal to one
\* built with a non-interned key of the same text, converts to a
\* SymbolProperty whose key is exactly that text, and serializes to a
\* property node whose first string is exactly that text.
C23_InterningUnobservable ==
  (T = "SymbolProperty" /\ fast # None /\ fast[1].ok) =>
    /\ SymbolPropertyFast_eq(fast[1].val,
                             [fast[1].val EXCEPT !.key = from_string(KeyOf(doc))])
    /\ converted # None => converted[1].key = KeyOf(doc)
    /\ fast_out # None => fast_out[1].list[2] = String(KeyOf(doc))
    /\ (fast_again # None /\ fast_again[1].ok) =>
         SymbolPropertyFast_eq(fast_again[1].val,
                               [fast[1].val EXCEPT !.key = from_string(KeyOf(doc))])

C23_Witness ==
  /\ T = "SymbolProperty"
  /\ KeyOf(doc) = "Value"
  /\ fast # None
  /\ fast[1].ok
  /\ fast[1].val.key = from_static("Value")
  /\ converted = Some(SymbolProperty_from(fast[1].val))
  /\ converted[1].key = "Value"
  /\ fast_out # None
  /\ fast_again # None
  /\ fast_again[1].ok

\* the entity types that have a presence test
PresenceTypes == {"SymbolDefinition", "LibSymbolSubUnit", "SymbolProperty", "PinNames"}

\* nodes written the way the format describes them, per entity type
WellFormedPinNames ==
  {Node("pin_names", c) :
     c \in {<<>>, <<Symbol("hide")>>, <<bool_with_name("hide", TRUE)>>,
            <<bool_with_name("hide", FALSE)>>, <<number_with_name("offset", F(1))>>,
            <<number_with_name("offset", F(1)), Symbol("hide")>>,
            <<number_with_name("offset", FH(0)), bool_with_name("hide", FALSE)>>}}

WellFormedProperties ==
  {Property(key, id \o at \o sn \o eff) :
     key \in {"Value", "Custom"},
     id \in {<<>>, <<number_with_name("id", F(1))>>},
     at \in {<<Node("at", <<Number(F(0)), Number(F(0))>>)>>,
             <<Node("at", <<Number(F(1)), Number(FH(2)), Number(F(90))>>)>>},
     sn \in {<<>>, <<Node("show_name", <<>>)>>},
     eff \in {<<DefaultEffects>>, <<RichEffects>>}}
  \cup {Property("Value", <<Node("at", <<Number(F(0)), Number(F(0))>>),
                           Node("do_not_autoplace", <<>>), DefaultEffects>>)}

WellFormedUnits ==
  {Node("symbol", c) :
     c \in {<<String("R_0_1")>>,
            <<String("R_1_1"), string_with_name("unit_name", "A")>>,
            <<String("R_0_1"), Node("rectangle", <<>>), Node("pin", <<Symbol("input")>>)>>}}

WellFormedSymbols ==
  {SymbolNode("Device:R", pw \o pn \o pnm \o efs \o <<InBom, OnBoard>>) :
     pw \in {<<>>, <<Node("power", <<>>)>>},
     pn \in {<<>>, <<symbol_with_name("pin_numbers", "hide")>>},
     pnm \in {<<>>, <<Node("pin_names", <<Symbol("hide")>>)>>,
              <<Node("pin_names", <<bool_with_name("hide", TRUE)>>)>>,
              <<Node("pin_names", <<bool_with_name("hide", FALSE)>>)>>},
     efs \in {<<>>, <<bool_with_name("exclude_from_sim", FALSE)>>}}
  \cup {SymbolNode("Device:R", <<InBom, OnBoard>> \o props \o units \o ef) :
     props \in PropsFollowing,
     units \in {<<>>, <<Node("symbol", <<String("R_0_1")>>)>>,
                <<Node("symbol", <<String("R_1_1"), string_with_name("unit_name", "A"),
                                   Node("rectangle", <<>>)>>)>>},
     ef \in {<<>>, <<bool_with_name("embedded_fonts", FALSE)>>}}
  \cup {SymbolNode("Device:C", <<Extends>> \o props) : props \in PropsFollowing}

WellFormed(T0) ==
  CASE T0 = "SymbolDefinition" -> WellFormedSymbols
    [] T0 = "LibSymbolSubUnit" -> WellFormedUnits
    [] T0 = "SymbolProperty" -> WellFormedProperties
    [] T0 = "PinNames" -> WellFormedPinNames

\* a list cut down to its first child
FirstChildOnly(list) == IF Len(list) = 0 THEN <<>> ELSE <<list[1]>>

\* C24: the presence test agrees with the full parse: whenever the full
\* parse of a list node succeeds the presence test of the type is true on
\* it; on every well-formed node of the type the presence test is true and
\* the full parse succeeds; the presence test looks at the first child of
\* the list only.
C24_PresenceAgreesWithParse ==
  T \in PresenceTypes =>
    /\ (fast # None /\ fast[1].ok) => is_present_ref(T, doc.list)
    /\ doc \in WellFormed(T) =>
         /\ is_present_ref(T, doc.list)
         /\ fast # None => fast[1].ok
    /\ is_present_ref(T, doc.list) = is_present_ref(T, FirstChildOnly(doc.list))

C24_Witness ==
  /\ T = "SymbolDefinition"
  /\ doc \in WellFormedSymbols
  /\ Len(doc.list) > 4
  /\ is_present_ref(T, doc.list)
  /\ fast # None
  /\ fast[1].ok

\* C25: maybe_bool_with_name accepts the vocabulary of
\* expect_bool_with_name: on a present node (keyword s) both give the same
\* boolean for s in {yes, no, true, false} and both fail with
\* InvalidEnumValue for every other symbol s.
C25_SameVocabulary ==
  (call.op = "maybe_bool_with_name" /\ BoolNode(call.before, call.arg)) =>
    /\ call.ret.ok = expect_bool_with_name(call.before, call.arg).ok
    /\ call.ret.ok =>
         call.ret.val = Some(expect_bool_with_name(call.before, call.arg).val)
    /\ ~call.ret.ok =>
         call.ret.err = expect_bool_with_name(call.before, call.arg).err

\* the call returned absent (the Option readers) or false (the marker reader)
ReturnedAbsent ==
  IF call.op = "maybe_empty_list_with_name" THEN call.ret.val = FALSE
  ELSE call.ret.val = None

\* C26: maybe_string_with_name, maybe_number_with_name and
\* maybe_empty_list_with_name consume a token only when they return a
\* present / true result: when one of them returns absent / false the
\* cursor is where it was before the call.
C26_AbsentConsumesNothing ==
  ( /\ call.op \in {"maybe_string_with_name", "maybe_number_with_name",
                    "maybe_empty_list_with_name"}
    /\ ReturnedAbsent ) =>
      call.ret.cur = call.before

\* the readers of a node (keyword value)
NamedReaders ==
  {"expect_string_with_name", "expect_number_with_name", "expect_symbol_with_name",
   "expect_bool_with_name", "maybe_string_with_name", "maybe_number_with_name",
   "maybe_bool_with_name"}

\* the reader handed a value back
ReadValue ==
  CASE call.op \in {"maybe_string_with_name", "maybe_number_with_name"} ->
         call.ret.val # None
    [] call.op = "maybe_bool_with_name" -> call.ret.ok /\ call.ret.val # None
    [] OTHER -> call.ret.ok

\* C27: the named single-value readers succeed only on a list that is
\* exactly the keyword followed by one value: a node with further children
\* after the value is rejected, not accepted with the extra children
\* dropped.
C27_ExactlyOneValue ==
  (call.op \in NamedReaders /\ ReadValue) =>
     Len(NextToken(call.before).list) = 2

====
